---------------------------- MODULE Spec2Model ----------------------------
(***************************************************************************)
(* A model of the request processing engine of ws-platform: the keepalive  *)
(* connection pool and its monitor thread (src/src/connection_pool.rs),    *)
(* the upstream balancer (src/src/upstream.rs), the reactor's per-client   *)
(* state machine (src/src/core/io.rs) and the proxy flush handler          *)
(* (src/src/http/plugins/proxy.rs).                                        *)
(***************************************************************************)
EXTENDS Integers, Sequences, FiniteSets, TLC

(***************************************************************************)
(* Bounds of the model.                                                    *)
(***************************************************************************)
MaxPeers == 2        \* sockets the pool may open in one behaviour
MaxTime == 1         \* last instant of the logical clock

MaxChan == MaxPeers - 1    \* messages in flight to the monitor thread
MaxCap == MaxPeers         \* largest max_active / max_keepalive / keepalive_requests
KeepaliveDur == MaxTime    \* keepalive_timeout, in clock ticks
ProxyDur == MaxTime        \* proxy_timeout, in clock ticks

PeerIds == 1..MaxPeers
MaxToken == MaxPeers       \* last value next_token() may hand out
NoExp == -1          \* Option<SystemTime>::None

VARIABLES
    now,          \* SystemTime::now(), a logical clock
    cfg,          \* the pool's configuration: max_active, max_keepalive, keepalive_requests
    peer,         \* the owned Peer object of each socket
    pend,         \* weak peers set_keepalive has inserted and not yet sent as Add
    chan,         \* the mpsc channel to the monitor thread
    mon,          \* the monitor thread's own BTreeSet of weak peers
    next_token,   \* UNIQUE_TOKEN
    res,          \* outcome of the last ConnectionPool::connect
    ups,          \* an Upstream: its server sets, balancer index and userdata count
    avail,        \* the servers whose pool would hand out a peer right now
    opts,         \* the listener's Options
    conn,         \* the accepted client connections and their ClientContext
    clients,      \* the reactor's clients table: token -> Item
    keepalive,    \* the reactor's BTreeSet of (deadline, token)
    workers,      \* requests posted to the worker pool
    ready,        \* responses pushed by the workers, not yet picked up
    unique_token, \* the reactor's token counter
    px,           \* the proxied response in flight and its HttpProxyContext
    up,           \* whether the upstream server can be connected
    hc,           \* one client connection of the HTTP server and its exchange
    rq,           \* an HttpRequest being parsed: its input, context and fields
    rsp,          \* an HttpResponse being written: its fields and the bytes written
    rt            \* the routing of one request: the routers, the URI, the route found

poolVars == <<cfg, peer, pend, chan, mon, next_token, res>>
upsVars == <<ups, avail>>
ioVars == <<opts, conn, clients, keepalive, workers, ready, unique_token>>
pxVars == <<px, up>>
httpVars == <<hc, rq, rsp, rt>>

vars == <<now, poolVars, upsVars, ioVars, pxVars, httpVars>>

(***************************************************************************)
(* ConnectionPool                                                          *)
(***************************************************************************)

\* Peer::new before TcpStream::connect has produced the socket.
NoPeer == [loc |-> "none", token |-> 0, exp |-> NoExp, requests |-> 0,
           pool |-> FALSE, active |-> FALSE, keepalive |-> FALSE, valid |-> FALSE]

\* A dropped Peer whose owned TcpSocket has closed the descriptor; the count
\* of requests it had served is kept for the record.
Closed(p) == [NoPeer EXCEPT !.loc = "closed", !.requests = p.requests]

\* Peer::weak: same socket, token and deadline, no pool and no counters
\* (the copied requests count is never read from a weak peer).
Weak(id) == [id |-> id, token |-> peer[id].token, exp |-> peer[id].exp, pool |-> FALSE]

\* The pool stored in the servers map: its Arcs are cloned into every
\* checked-out peer (active) and every live pooled peer (keepalive).
OrigPool == [active |-> 1 + Cardinality({i \in PeerIds : peer[i].active}),
             keepalive |-> 1 + Cardinality({i \in PeerIds : peer[i].keepalive})]

\* impl Clone for ConnectionPool: the clone gets fresh Arc::new(-1) counters
\* that nobody else ever clones; the idle set and the limits are shared.
ClonePool(pool) == [active |-> 1, keepalive |-> 1]

\* ConnectionPool::active and ConnectionPool::idle, from Arc::strong_count.
active(pool) == pool.active - 1
idle(pool) == pool.keepalive - pool.active

\* The BTreeSet<Peer> behind the pool mutex, and its order (exp, token).
IdleSet == {i \in PeerIds : peer[i].loc = "idle"}
Before(a, b) == \/ a.exp < b.exp
                \/ a.exp = b.exp /\ a.token < b.token

\* peers.iter().next() repeated by connect's loop: the stale prefix of the
\* idle set (dropped) and the first peer whose socket is still valid.
FirstValid == {i \in IdleSet : /\ peer[i].valid
                               /\ \A j \in IdleSet : Before(peer[j], peer[i]) => ~peer[j].valid}
StalePrefix == {i \in IdleSet : /\ ~peer[i].valid
                                /\ \A j \in IdleSet : Before(peer[j], peer[i]) => ~peer[j].valid}

\* TcpSocket::set_timeout.
Deadline(d) == IF d = 0 THEN NoExp ELSE now + d

\* Message::Add / Message::Remove carrying a weak peer.
Msg(kind, w) == [kind |-> kind, w |-> w]

\* ConnectionPool::send: push on the channel (and wake the monitor).
send(ch, m) == Append(ch, m)

\* ConnectionPool::connect, rejected: active() == max_active.
ConnectRejected ==
    /\ active(OrigPool) = cfg.max_active
    /\ res' = [out |-> "max_active", before |-> active(OrigPool)]
    /\ UNCHANGED <<now, cfg, peer, pend, chan, mon, next_token>>

\* The fields connect sets on the peer it hands out (new or reused).
CheckedOut(p, d, tok) == [p EXCEPT !.loc = "caller", !.pool = TRUE, !.active = TRUE,
                                  !.keepalive = TRUE, !.exp = Deadline(d), !.token = tok]

\* The reuse path with the weak copy for Remove taken after set_timeout and
\* next_token(): the message carries the new deadline and token.
ConnectReuse_remove_last(d) ==
    /\ active(OrigPool) # cfg.max_active
    /\ next_token <= MaxToken
    /\ Len(chan) < MaxChan
    /\ \E i \in FirstValid :
        /\ chan' = send(chan, Msg("Remove", [id |-> i, token |-> next_token,
                                             exp |-> Deadline(d), pool |-> FALSE]))
        /\ peer' = [j \in PeerIds |->
                      IF j = i THEN CheckedOut(peer[i], d, next_token)
                      ELSE IF j \in StalePrefix THEN Closed(peer[j])
                      ELSE peer[j]]
        /\ res' = [out |-> "reuse", before |-> active(OrigPool)]
    /\ next_token' = next_token + 1
    /\ UNCHANGED <<now, cfg, pend, mon>>

\* ConnectionPool::connect, reuse path: stale idle peers are dropped, the first
\* valid one is taken, Remove(weak) is sent, deadline reset, token bumped.
ConnectReuse(d) ==
    /\ active(OrigPool) # cfg.max_active
    /\ next_token <= MaxToken
    /\ Len(chan) < MaxChan
    /\ \E i \in FirstValid :
        /\ chan' = send(chan, Msg("Remove", Weak(i)))
        /\ peer' = [j \in PeerIds |->
                      IF j = i THEN CheckedOut(peer[i], d, next_token)
                      ELSE IF j \in StalePrefix THEN Closed(peer[j])
                      ELSE peer[j]]
        /\ res' = [out |-> "reuse", before |-> active(OrigPool)]
    /\ next_token' = next_token + 1
    /\ UNCHANGED <<now, cfg, pend, mon>>

\* ConnectNew without the active() == max_active test.
ConnectNew_unguarded(d, ok) ==
    /\ FirstValid = {}
    /\ IF ok
       THEN /\ next_token <= MaxToken
            /\ \E i \in PeerIds :
                /\ peer[i].loc = "none"
                /\ \A j \in PeerIds : j < i => peer[j].loc # "none"
                /\ peer' = [j \in PeerIds |->
                      IF j = i THEN CheckedOut([NoPeer EXCEPT !.valid = TRUE], d, next_token)
                      ELSE IF j \in StalePrefix THEN Closed(peer[j])
                      ELSE peer[j]]
                /\ res' = [out |-> "new", before |-> active(OrigPool)]
            /\ next_token' = next_token + 1
       ELSE /\ peer' = [j \in PeerIds |->
                      IF j \in StalePrefix THEN Closed(peer[j]) ELSE peer[j]]
            /\ res' = [out |-> "error", before |-> active(OrigPool)]
            /\ UNCHANGED next_token
    /\ UNCHANGED <<now, cfg, pend, chan, mon>>

\* ConnectionPool::connect, no valid idle peer left: StreamType::connect
\* either yields a socket (Peer::new takes the next token) or fails.
ConnectNew(d, ok) ==
    /\ active(OrigPool) # cfg.max_active
    /\ FirstValid = {}
    /\ IF ok
       THEN /\ next_token <= MaxToken
            /\ \E i \in PeerIds :
                /\ peer[i].loc = "none"
                /\ \A j \in PeerIds : j < i => peer[j].loc # "none"
                /\ peer' = [j \in PeerIds |->
                      IF j = i THEN CheckedOut([NoPeer EXCEPT !.valid = TRUE], d, next_token)
                      ELSE IF j \in StalePrefix THEN Closed(peer[j])
                      ELSE peer[j]]
                /\ res' = [out |-> "new", before |-> active(OrigPool)]
            /\ next_token' = next_token + 1
       ELSE /\ peer' = [j \in PeerIds |->
                      IF j \in StalePrefix THEN Closed(peer[j]) ELSE peer[j]]
            /\ res' = [out |-> "error", before |-> active(OrigPool)]
            /\ UNCHANGED next_token
    /\ UNCHANGED <<now, cfg, pend, chan, mon>>

\* ConnectionPool::set_keepalive: the test idle() == max_keepalive.
KeepaliveFull(pool) == idle(pool) = cfg.max_keepalive

\* set_keepalive without the keepalive_requests test.
set_keepalive_uncapped(i, d) ==
    LET p == peer[i]
        served == [p EXCEPT !.requests = p.requests + 1]
        kept == [served EXCEPT !.loc = "idle", !.pool = FALSE, !.active = FALSE,
                               !.exp = now + d]
    IN  IF ~p.valid \/ KeepaliveFull(ClonePool(OrigPool))
        THEN /\ peer' = [peer EXCEPT ![i] = Closed(p)]
             /\ UNCHANGED pend
        ELSE /\ peer' = [peer EXCEPT ![i] = kept]
             /\ pend' = pend \cup {[id |-> i, token |-> kept.token, exp |-> kept.exp,
                                    pool |-> TRUE]}

\* ConnectionPool::set_keepalive up to the release of the pool mutex, run on
\* the pool the peer carries (a clone): the peer is dropped when its socket
\* is invalid, when idle() == max_keepalive or when it has served
\* keepalive_requests; otherwise it is inserted into the idle set.
set_keepalive(i, d) ==
    LET p == peer[i]
        served == [p EXCEPT !.requests = p.requests + 1]
        kept == [served EXCEPT !.loc = "idle", !.pool = FALSE, !.active = FALSE,
                               !.exp = now + d]
    IN  IF ~p.valid \/ KeepaliveFull(ClonePool(OrigPool))
        THEN /\ peer' = [peer EXCEPT ![i] = Closed(p)]
             /\ UNCHANGED pend
        ELSE IF served.requests = cfg.keepalive_requests
        THEN /\ peer' = [peer EXCEPT ![i] = Closed(served)]
             /\ UNCHANGED pend
        ELSE /\ peer' = [peer EXCEPT ![i] = kept]
             /\ pend' = pend \cup {[id |-> i, token |-> kept.token, exp |-> kept.exp,
                                    pool |-> TRUE]}

\* ConnectionPool::remove_keepalive on the monitor's weak peer: the owned
\* peer with the same (exp, token) leaves the idle set and is dropped.
remove_keepalive(w) ==
    [j \in PeerIds |->
        IF w.pool /\ j \in IdleSet /\ peer[j].exp = w.exp /\ peer[j].token = w.token
        THEN Closed(peer[j]) ELSE peer[j]]

(***************************************************************************)
(* Callers of the pool (reactor threads holding a checked-out peer)        *)
(***************************************************************************)

\* impl Drop for Peer: a peer still tied to its pool is offered back to it,
\* a released one just closes.
PeerDrop(i) ==
    /\ peer[i].loc = "caller"
    /\ IF peer[i].pool
       THEN set_keepalive(i, KeepaliveDur)
       ELSE /\ peer' = [peer EXCEPT ![i] = Closed(peer[i])]
            /\ UNCHANGED pend
    /\ UNCHANGED <<now, cfg, chan, mon, next_token, res>>

\* Peer::release.
PeerRelease(i) ==
    /\ peer[i].loc = "caller"
    /\ peer[i].pool
    /\ peer' = [peer EXCEPT ![i].pool = FALSE]
    /\ UNCHANGED <<now, cfg, pend, chan, mon, next_token, res>>

\* ConnectionPool::set_keepalive after the mutex: self.send(Message::Add(peer)).
SendAdd(w) ==
    /\ w \in pend
    /\ Len(chan) < MaxChan
    /\ chan' = send(chan, Msg("Add", w))
    /\ pend' = pend \ {w}
    /\ UNCHANGED <<now, cfg, peer, mon, next_token, res>>

\* The environment: a socket error on an open socket. The error stays on the
\* socket: valid() answers false from then on.
SocketError(i) ==
    /\ peer[i].loc \in {"caller", "idle"}
    /\ peer[i].valid
    /\ peer' = [peer EXCEPT ![i].valid = FALSE]
    /\ UNCHANGED <<now, cfg, pend, chan, mon, next_token, res>>

\* The environment: time passes.
Tick ==
    /\ now < MaxTime
    /\ now' = now + 1

(***************************************************************************)
(* The monitor thread                                                      *)
(***************************************************************************)

\* rx.try_recv(): Remove takes the matching weak peer out of the monitor's
\* set; Add registers a valid socket and inserts it (AlreadyExists: released).
MonitorRecv ==
    /\ chan # <<>>
    /\ LET m == Head(chan)
           w == m.w
       IN  IF m.kind = "Remove"
           THEN mon' = {x \in mon : ~(x.exp = w.exp /\ x.token = w.token)}
           ELSE IF peer[w.id].valid /\ ~(\E x \in mon : x.id = w.id)
                THEN mon' = mon \cup {w}
                ELSE mon' = mon
    /\ chan' = Tail(chan)
    /\ UNCHANGED <<now, cfg, peer, pend, next_token, res>>

\* One event of the monitor's poll for a registered peer: read-closed and
\* error remove it from the pool; any other event keeps it unless timed out.
MonitorEvent(w, ev) ==
    /\ w \in mon
    /\ IF ev \in {"read_closed", "error"} \/ (w.exp # NoExp /\ w.exp <= now)
       THEN /\ mon' = mon \ {w}
            /\ peer' = remove_keepalive(w)
       ELSE UNCHANGED <<mon, peer>>
    /\ UNCHANGED <<now, cfg, pend, chan, next_token, res>>

\* retain_timedout, one iteration: the first peer of the monitor's set, if
\* its deadline has passed, is taken out and removed from its pool.
RetainTimedout ==
    /\ \E w \in mon :
        /\ \A x \in mon : ~Before(x, w)
        /\ w.exp # NoExp /\ w.exp <= now
        /\ mon' = mon \ {w}
        /\ peer' = remove_keepalive(w)
    /\ UNCHANGED <<now, cfg, pend, chan, next_token, res>>

\* usize::MAX stands for "unbounded": larger than any count reached.
UsizeMax == MaxPeers + 1

\* ConnectionPool::with_timeouts: a limit of 0 becomes usize::MAX.
with_timeouts(max_keepalive, max_active, timeout, keepalive_requests) ==
    [max_keepalive |-> IF max_keepalive = 0 THEN UsizeMax ELSE max_keepalive,
     max_active |-> IF max_active = 0 THEN UsizeMax ELSE max_active,
     timeout |-> timeout,
     keepalive_requests |-> keepalive_requests]

PoolStart ==
    /\ now = 0
    /\ cfg \in {with_timeouts(k, a, t, r) : k \in {1, MaxCap}, a \in {1, MaxCap},
                                            t \in {ProxyDur}, r \in {1, MaxCap}}
    /\ peer = [i \in PeerIds |-> NoPeer]
    /\ pend = {}
    /\ chan = <<>>
    /\ mon = {}
    /\ next_token = 1
    /\ res = [out |-> "none", before |-> 0]

PoolNext ==
    \/ ConnectRejected /\ UNCHANGED <<upsVars, ioVars, pxVars, httpVars>>
    \/ ConnectReuse(cfg.timeout) /\ UNCHANGED <<upsVars, ioVars, pxVars, httpVars>>
    \/ \E ok \in BOOLEAN : ConnectNew(cfg.timeout, ok) /\ UNCHANGED <<upsVars, ioVars, pxVars, httpVars>>
    \/ \E i \in PeerIds : PeerDrop(i) /\ UNCHANGED <<upsVars, ioVars, pxVars, httpVars>>
    \/ \E i \in PeerIds : PeerRelease(i) /\ UNCHANGED <<upsVars, ioVars, pxVars, httpVars>>
    \/ \E w \in pend : SendAdd(w) /\ UNCHANGED <<upsVars, ioVars, pxVars, httpVars>>
    \/ \E i \in PeerIds : SocketError(i) /\ UNCHANGED <<upsVars, ioVars, pxVars, httpVars>>
    \/ Tick /\ UNCHANGED <<poolVars, upsVars, ioVars, pxVars, httpVars>>
    \/ MonitorRecv /\ UNCHANGED <<upsVars, ioVars, pxVars, httpVars>>
    \/ \E w \in mon, ev \in {"read_closed", "error", "readable"} :
            MonitorEvent(w, ev) /\ UNCHANGED <<upsVars, ioVars, pxVars, httpVars>>
    \/ RetainTimedout /\ UNCHANGED <<upsVars, ioVars, pxVars, httpVars>>

\* No upstream is configured.
NoUpstream == [primary |-> {}, backup |-> {}, max_active |-> 0, index |-> 0, count |-> 0,
               tried |-> <<>>, out |-> "none", peer |-> 0]

UpsIdle == ups = NoUpstream /\ avail = {}

\* No listener is configured.
IoIdle ==
    /\ opts = [request_timeout |-> 0, response_timeout |-> 0, keepalive_timeout |-> 0,
               keepalive_requests |-> 0]
    /\ conn = <<>>
    /\ clients = {}
    /\ keepalive = {}
    /\ workers = {}
    /\ ready = <<>>
    /\ unique_token = 0

\* No proxied response is in flight.
NoProxy == [pc |-> "idle", state |-> 0, peer |-> 0, exp |-> NoExp, status |-> 0,
            out |-> "none", served |-> 0, errors |-> 0,
            last |-> [state |-> 0, peer |-> 0], noka |-> {}]

PxIdle == px = NoProxy /\ up = TRUE

\* No HTTP exchange is modelled.
NoHttp == [st |-> "none"]

\* No request parser is modelled.
NoRequest == [rc |-> "none"]

\* No response writer is modelled.
NoResponse == [done |-> TRUE, wire |-> <<>>]

\* No routing is modelled.
NoRouting == [pc |-> "none"]

HttpIdle == hc = NoHttp /\ rq = NoRequest /\ rsp = NoResponse /\ rt = NoRouting

PoolInit == PoolStart /\ UpsIdle /\ IoIdle /\ PxIdle /\ HttpIdle

SpecPool == PoolInit /\ [][PoolNext]_vars


(***************************************************************************)
(* Upstream                                                                *)
(***************************************************************************)
MaxServers == 3      \* addresses an upstream may list

Addrs == 1..MaxServers

\* servers[i].iter(): the n-th address of a server map, in the map's order.
Nth(S, n) == CHOOSE a \in S : Cardinality({b \in S : b < a}) = n

\* RoundRobin::balance: the address at index % len; the index moves by one
\* (only index % len is ever read, so it is kept modulo len).
balance(S, index) == Nth(S, index % Cardinality(S))

\* Upstream::active, seen from inside connect: the userdata clone made on
\* entry is already counted.
ups_active(u) == IF u.max_active < u.count + 1 THEN u.max_active ELSE u.count + 1

\* The server maps connect iterates: for i in 0..1 is servers[0] alone.
ConnectSets(u) == <<u.primary>>

\* The balance-and-try attempts over one server map: servers.len() attempts,
\* stopping at the first server whose pool hands out a peer.
RECURSIVE Attempts(_, _, _, _)
Attempts(S, index, k, tried) ==
    IF k = 0 THEN [tried |-> tried, index |-> index, peer |-> 0]
    ELSE LET addr == balance(S, index)
             next == (index + 1) % Cardinality(S)
         IN  IF addr \in avail
             THEN [tried |-> Append(tried, addr), index |-> next, peer |-> addr]
             ELSE Attempts(S, next, k - 1, Append(tried, addr))

\* The loop over the server maps: the next map is tried when one is exhausted.
RECURSIVE TrySets(_, _, _)
TrySets(sets, index, tried) ==
    IF sets = <<>> THEN [tried |-> tried, index |-> index, peer |-> 0]
    ELSE LET S == Head(sets)
             a == IF S = {} THEN [tried |-> tried, index |-> index, peer |-> 0]
                  ELSE Attempts(S, index % Cardinality(S), Cardinality(S), tried)
         IN  IF a.peer # 0 THEN a ELSE TrySets(Tail(sets), a.index, a.tried)

\* Upstream::connect.
UpstreamConnect ==
    /\ ups.primary # {}
    /\ IF ups_active(ups) = ups.max_active
       THEN ups' = [ups EXCEPT !.tried = <<>>, !.out = "max_active", !.peer = 0]
       ELSE LET r == TrySets(ConnectSets(ups), ups.index, <<>>)
            IN  ups' = [ups EXCEPT !.tried = r.tried, !.index = r.index, !.peer = r.peer,
                                   !.out = IF r.peer # 0 THEN "ok" ELSE "Bad gateway",
                                   !.count = IF r.peer # 0 THEN @ + 1 ELSE @]
    /\ UNCHANGED avail

\* A peer handed out by the upstream is dropped: its userdata goes with it.
UpstreamPeerDrop ==
    /\ ups.count > 0
    /\ ups' = [ups EXCEPT !.count = @ - 1]
    /\ UNCHANGED avail

\* The environment: a server starts or stops handing out peers.
ServerFlip(a) ==
    /\ a \in ups.primary \cup ups.backup
    /\ avail' = IF a \in avail THEN avail \ {a} ELSE avail \cup {a}
    /\ UNCHANGED ups

\* Upstream::new followed by add_primary / add_backup; max_active = 0 is what
\* the proxy plugin passes for an upstream built from a literal address.
UpstreamStart ==
    /\ \E P \in SUBSET Addrs \ {{}}, B \in SUBSET Addrs, m \in 0..MaxServers :
        /\ P \cap B = {}
        /\ ups = [NoUpstream EXCEPT !.primary = P, !.backup = B, !.max_active = m]
    /\ avail = {}

UpstreamNext ==
    \/ UpstreamConnect /\ UNCHANGED <<now, poolVars, ioVars, pxVars, httpVars>>
    \/ UpstreamPeerDrop /\ UNCHANGED <<now, poolVars, ioVars, pxVars, httpVars>>
    \/ \E a \in Addrs : ServerFlip(a) /\ UNCHANGED <<now, poolVars, ioVars, pxVars, httpVars>>

\* The pool is not exercised by the upstream specification.
PoolIdle ==
    /\ now = 0
    /\ cfg = with_timeouts(0, 0, 0, 0)
    /\ peer = [i \in PeerIds |-> NoPeer]
    /\ pend = {}
    /\ chan = <<>>
    /\ mon = {}
    /\ next_token = 1
    /\ res = [out |-> "none", before |-> 0]

UpstreamInit == UpstreamStart /\ PoolIdle /\ IoIdle /\ PxIdle /\ HttpIdle

SpecUpstream == UpstreamInit /\ [][UpstreamNext]_vars


(***************************************************************************)
(* The reactor (IO::new) and its per-client state machine                  *)
(***************************************************************************)
MaxConns == 1        \* client connections accepted in one behaviour
MaxKeepalive == 2    \* largest keepalive_requests of the listener

SIGNAL == 0
SERVER == 1
CLIENT == 100000

Conns == 1..MaxConns

\* A connection the listener has not accepted yet. Besides the fields of
\* ClientContext (exp, requests) it records what has been done on the
\* connection: requests parsed, worker calls made, responses flushed, and
\* the last operation with the number of the request it belonged to.
NewConn == [st |-> "new", exp |-> NoExp, requests |-> 0, interest |-> "none",
            parsed |-> 0, worked |-> 0, flushed |-> 0,
            ev |-> [kind |-> "none", n |-> 0], closed_by |-> "none"]

\* Dropping the item that owns the ClientContext closes the socket.
CloseConn(k, why) == [k EXCEPT !.st = "closed", !.interest = "none", !.closed_by = why]

\* (exp, token) as stored in the keepalive set; None deadlines are not stored.
Key(exp, token) == IF exp = NoExp THEN {} ELSE {<<exp, token>>}

\* next(&mut unique_token).
next(current) == current + 1

\* The listener branch of the event loop: accept, register for reading,
\* arm request_timeout (the key is stored under the listener's token).
Accept(c) ==
    /\ conn[c].st = "new"
    /\ \A d \in Conns : d < c => conn[d].st # "new"
    /\ LET client_token == unique_token
           exp == Deadline(opts.request_timeout)
       IN  /\ conn' = [conn EXCEPT ![c] = [@ EXCEPT !.st = "open", !.exp = exp,
                                                    !.interest = "READABLE"]]
           /\ keepalive' = keepalive \cup Key(exp, SERVER)
           /\ clients' = clients \cup {[token |-> client_token, c |-> c, item |-> "Idle"]}
           /\ unique_token' = next(unique_token)
    /\ UNCHANGED <<now, opts, workers, ready>>

\* HandleRequest leaving the parsed request in the clients table.
HandleRequest_kept(e, parse) ==
    /\ e \in clients
    /\ e.item \in {"Idle", "Request"}
    /\ LET k == conn[e.c]
           armed == IF e.item = "Idle" THEN Deadline(opts.request_timeout) ELSE k.exp
           ka == IF e.item = "Idle"
                 THEN (keepalive \ Key(k.exp, e.token)) \cup Key(armed, e.token)
                 ELSE keepalive
           read == [k EXCEPT !.exp = armed, !.ev = [kind |-> "read", n |-> k.parsed + 1]]
       IN  CASE parse = "OK" ->
                 /\ conn' = [conn EXCEPT ![e.c] = [read EXCEPT !.parsed = @ + 1]]
                 /\ clients' = (clients \ {e}) \cup {[e EXCEPT !.item = "Request"]}
                 /\ workers' = workers \cup {e.c}
                 /\ keepalive' = ka \ Key(armed, e.token)
            [] parse = "AGAIN" ->
                 /\ conn' = [conn EXCEPT ![e.c] = read]
                 /\ clients' = (clients \ {e}) \cup {[e EXCEPT !.item = "Request"]}
                 /\ keepalive' = ka \cup Key(armed, e.token)
                 /\ UNCHANGED workers
            [] OTHER ->
                 /\ conn' = [conn EXCEPT ![e.c] = CloseConn(read, parse)]
                 /\ clients' = clients \ {e}
                 /\ keepalive' = ka \ Key(armed, e.token)
                 /\ UNCHANGED workers
    /\ UNCHANGED <<now, opts, ready, unique_token>>

\* handle_io on an Idle or Request item: an Idle client becomes a Request
\* with request_timeout armed, and the same call goes on to parse.
\*   OK: deregister, post to the workers;  AGAIN: keep the Request;
\*   DECLINED / Err: the request is dropped and the socket closes.
HandleRequest(e, parse) ==
    /\ e \in clients
    /\ e.item \in {"Idle", "Request"}
    /\ LET k == conn[e.c]
           armed == IF e.item = "Idle" THEN Deadline(opts.request_timeout) ELSE k.exp
           ka == IF e.item = "Idle"
                 THEN (keepalive \ Key(k.exp, e.token)) \cup Key(armed, e.token)
                 ELSE keepalive
           read == [k EXCEPT !.exp = armed, !.ev = [kind |-> "read", n |-> k.parsed + 1]]
       IN  CASE parse = "OK" ->
                 /\ conn' = [conn EXCEPT ![e.c] = [read EXCEPT !.parsed = @ + 1,
                                                               !.interest = "none"]]
                 /\ clients' = clients \ {e}
                 /\ workers' = workers \cup {e.c}
                 /\ keepalive' = ka \ Key(armed, e.token)
            [] parse = "AGAIN" ->
                 /\ conn' = [conn EXCEPT ![e.c] = read]
                 /\ clients' = (clients \ {e}) \cup {[e EXCEPT !.item = "Request"]}
                 /\ keepalive' = ka \cup Key(armed, e.token)
                 /\ UNCHANGED workers
            [] OTHER ->
                 /\ conn' = [conn EXCEPT ![e.c] = CloseConn(read, parse)]
                 /\ clients' = clients \ {e}
                 /\ keepalive' = ka \ Key(armed, e.token)
                 /\ UNCHANGED workers
    /\ UNCHANGED <<now, opts, ready, unique_token>>

\* A worker thread runs the handler on a posted request and pushes the
\* response on the ready list (and wakes the reactor).
Work(c) ==
    /\ c \in workers
    /\ workers' = workers \ {c}
    /\ ready' = Append(ready, c)
    /\ conn' = [conn EXCEPT ![c] = [@ EXCEPT !.worked = @ + 1,
                                            !.ev = [kind |-> "work", n |-> conn[c].worked + 1]]]
    /\ UNCHANGED <<now, opts, clients, keepalive, unique_token>>

\* The SIGNAL branch: every ready response gets a fresh token, is registered
\* for writing with response_timeout armed and becomes a Response item.
RECURSIVE Drain(_, _, _, _, _)
Drain(rd, cn, cl, ka, tok) ==
    IF rd = <<>> THEN [conn |-> cn, clients |-> cl, keepalive |-> ka, unique_token |-> tok]
    ELSE LET c == Head(rd)
             exp == Deadline(opts.response_timeout)
         IN  Drain(Tail(rd),
                   [cn EXCEPT ![c] = [@ EXCEPT !.exp = exp, !.interest = "WRITABLE"]],
                   cl \cup {[token |-> tok, c |-> c, item |-> "Response"]},
                   ka \cup Key(exp, tok),
                   next(tok))

Signal ==
    /\ ready # <<>>
    /\ LET r == Drain(ready, conn, clients, keepalive, unique_token)
       IN  /\ conn' = r.conn
           /\ clients' = r.clients
           /\ keepalive' = r.keepalive
           /\ unique_token' = r.unique_token
    /\ ready' = <<>>
    /\ UNCHANGED <<now, opts, workers>>

\* HandleResponse without the keepalive_requests test.
HandleResponse_unlimited(e, flush) ==
    /\ e \in clients
    /\ e.item = "Response"
    /\ LET k == conn[e.c]
           ka == keepalive \ Key(k.exp, e.token)
           wrote == [k EXCEPT !.ev = [kind |-> "write", n |-> k.flushed + 1]]
       IN  CASE flush = "OK" ->
                 LET done == [wrote EXCEPT !.flushed = @ + 1, !.requests = @ + 1,
                                           !.interest = "READABLE"]
                     exp == Deadline(opts.keepalive_timeout)
                 IN  /\ conn' = [conn EXCEPT ![e.c] = [done EXCEPT !.exp = exp]]
                     /\ clients' = (clients \ {e}) \cup {[e EXCEPT !.item = "Idle"]}
                     /\ keepalive' = ka \cup Key(exp, e.token)
            [] flush = "AGAIN" ->
                 /\ conn' = [conn EXCEPT ![e.c] = wrote]
                 /\ clients' = clients
                 /\ keepalive' = ka \cup Key(k.exp, e.token)
            [] flush = "DECLINED" ->
                 /\ conn' = [conn EXCEPT ![e.c] = CloseConn([wrote EXCEPT !.flushed = @ + 1],
                                                            flush)]
                 /\ clients' = clients \ {e}
                 /\ keepalive' = ka
            [] OTHER ->
                 /\ conn' = [conn EXCEPT ![e.c] = CloseConn(wrote, flush)]
                 /\ clients' = clients \ {e}
                 /\ keepalive' = ka
    /\ UNCHANGED <<now, opts, workers, ready, unique_token>>

\* handle_io on a Response item, by the result of resp.flush():
\*   OK(None): the request is complete: register for reading, count it, and
\*             either close (keepalive_requests reached) or go Idle with
\*             keepalive_timeout armed;
\*   AGAIN: more to write;  DECLINED / Err: the response is dropped.
HandleResponse(e, flush) ==
    /\ e \in clients
    /\ e.item = "Response"
    /\ LET k == conn[e.c]
           ka == keepalive \ Key(k.exp, e.token)
           wrote == [k EXCEPT !.ev = [kind |-> "write", n |-> k.flushed + 1]]
       IN  CASE flush = "OK" ->
                 LET done == [wrote EXCEPT !.flushed = @ + 1, !.requests = @ + 1,
                                           !.interest = "READABLE"]
                     exp == Deadline(opts.keepalive_timeout)
                 IN  IF done.requests = opts.keepalive_requests
                     THEN /\ conn' = [conn EXCEPT ![e.c] = CloseConn(done, "keepalive_requests")]
                          /\ clients' = clients \ {e}
                          /\ keepalive' = ka
                     ELSE /\ conn' = [conn EXCEPT ![e.c] = [done EXCEPT !.exp = exp]]
                          /\ clients' = (clients \ {e}) \cup {[e EXCEPT !.item = "Idle"]}
                          /\ keepalive' = ka \cup Key(exp, e.token)
            [] flush = "AGAIN" ->
                 /\ conn' = [conn EXCEPT ![e.c] = wrote]
                 /\ clients' = clients
                 /\ keepalive' = ka \cup Key(k.exp, e.token)
            [] flush = "DECLINED" ->
                 /\ conn' = [conn EXCEPT ![e.c] = CloseConn([wrote EXCEPT !.flushed = @ + 1],
                                                            flush)]
                 /\ clients' = clients \ {e}
                 /\ keepalive' = ka
            [] OTHER ->
                 /\ conn' = [conn EXCEPT ![e.c] = CloseConn(wrote, flush)]
                 /\ clients' = clients \ {e}
                 /\ keepalive' = ka
    /\ UNCHANGED <<now, opts, workers, ready, unique_token>>

\* The timeout pass at the top of the event loop: every key whose deadline
\* has come is taken out and the client under its token, if any, is dropped.
Timeouts ==
    LET due == {key \in keepalive : key[1] <= now}
        gone == {e \in clients : \E key \in due : key[2] = e.token}
    IN  /\ due # {}
        /\ keepalive' = keepalive \ due
        /\ clients' = clients \ gone
        /\ conn' = [c \in Conns |-> IF \E e \in gone : e.c = c
                                    THEN CloseConn(conn[c], "timedout") ELSE conn[c]]
        /\ UNCHANGED <<now, opts, workers, ready, unique_token>>

\* add_listener with the server's Options.
IoStart ==
    /\ now = 0
    /\ opts \in [request_timeout : {0, MaxTime}, response_timeout : {0, MaxTime},
                 keepalive_timeout : {0, MaxTime}, keepalive_requests : 1..MaxKeepalive]
    /\ conn = [c \in Conns |-> NewConn]
    /\ clients = {}
    /\ keepalive = {}
    /\ workers = {}
    /\ ready = <<>>
    /\ unique_token = CLIENT

\* The pool is not exercised by the reactor specification.
PoolUnused ==
    /\ cfg = with_timeouts(0, 0, 0, 0)
    /\ peer = [i \in PeerIds |-> NoPeer]
    /\ pend = {}
    /\ chan = <<>>
    /\ mon = {}
    /\ next_token = 1
    /\ res = [out |-> "none", before |-> 0]

IoInit == IoStart /\ PoolUnused /\ UpsIdle /\ PxIdle /\ HttpIdle

IoNext ==
    \/ \E c \in Conns : Accept(c) /\ UNCHANGED <<poolVars, upsVars, pxVars, httpVars>>
    \/ \E e \in clients, parse \in {"OK", "AGAIN", "DECLINED", "Err"} :
            HandleRequest(e, parse) /\ UNCHANGED <<poolVars, upsVars, pxVars, httpVars>>
    \/ \E c \in Conns : Work(c) /\ UNCHANGED <<poolVars, upsVars, pxVars, httpVars>>
    \/ Signal /\ UNCHANGED <<poolVars, upsVars, pxVars, httpVars>>
    \/ \E e \in clients, flush \in {"OK", "AGAIN", "DECLINED", "Err"} :
            HandleResponse(e, flush) /\ UNCHANGED <<poolVars, upsVars, pxVars, httpVars>>
    \/ Timeouts /\ UNCHANGED <<poolVars, upsVars, pxVars, httpVars>>
    \/ Tick /\ UNCHANGED <<poolVars, upsVars, ioVars, pxVars, httpVars>>

SpecIO == IoInit /\ [][IoNext]_vars

(***************************************************************************)
(* The proxy plugin: one proxied response at a time over one upstream      *)
(* server, driven by the reactor's events                                  *)
(***************************************************************************)

MaxTrans == MaxPeers          \* proxied requests in one behaviour
ResponseDur == MaxTime + 1    \* the listener's response_timeout, in clock ticks

\* enum HttpProxyState, in declaration order.
st_connecting == 0
st_connected == 1
st_request_prepared == 2
st_request_sent == 3
st_protocol == 4
st_protocol_end == 5
st_status == 6
st_status_end == 7
st_headers == 8
st_headers_end == 9
st_body == 10
st_parsed == 11

\* The flush handler retries an error while context.state is below this.
RetryLimit_headers == st_headers_end
RetryLimit == st_protocol_end

\* What one call of parse_response can do with the bytes it is given, from
\* context state cur: the state it stops in, how it stops, the protocol token
\* if the call completes it, whether a "Connection: close" header line was
\* processed, and whether the response carries a body length.
ReadOutcomes(cur) ==
    LET from == IF cur < st_protocol THEN st_protocol ELSE cur
        stops == {st \in {st_protocol, st_protocol_end, st_status, st_headers,
                          st_body, st_parsed} :
                    /\ st >= from
                    /\ st = st_protocol_end => from = st_protocol}
    IN  UNION {
          LET token == from = st_protocol /\ st > st_protocol
              hdrs == from <= st_headers /\ st >= st_headers
          IN  [stop : {st},
               how : IF st = st_parsed THEN {"OK"}
                     ELSE IF st = st_protocol_end THEN {"Err"}
                     ELSE {"AGAIN", "Err"},
               proto : IF ~token THEN {"-"}
                       ELSE IF st = st_protocol_end THEN {"other"}
                       ELSE {"HTTP/1.1", "HTTP/1.0"},
               close : IF hdrs THEN BOOLEAN ELSE {FALSE},
               len : IF st = st_parsed THEN BOOLEAN ELSE {TRUE}]
          : st \in stops}

\* A parse that releases the peer only for a "Connection: close" header.
Releases_close_only(rd) == rd.close
\* parse_protocol and parse_headers call self.peer.release() for an HTTP/1.0
\* status line and for a "Connection: close" header.
Releases(rd) == rd.proto = "HTTP/1.0" \/ rd.close

\* The context (and with it the peer) goes out of scope: impl Drop for Peer,
\* after an optional release.
ContextDrop(p, released) ==
    IF released \/ ~peer[p].pool
    THEN /\ peer' = [peer EXCEPT ![p] = Closed(peer[p])]
         /\ UNCHANGED pend
    ELSE set_keepalive(p, KeepaliveDur)

\* The response leaves the handler chain and is written to the client; the
\* exchange is over.
Finish(status, out) ==
    [px EXCEPT !.pc = "idle", !.peer = 0, !.status = status, !.out = out,
               !.exp = NoExp, !.served = px.served + 1]

\* The SIGNAL branch registers the worker's response for writing under the
\* listener's response_timeout.
ProxyBegin ==
    /\ px.pc = "idle"
    /\ px.served < MaxTrans
    /\ px' = [px EXCEPT !.pc = "wait", !.peer = 0, !.state = st_connecting,
                        !.status = 0, !.out = "none",
                        !.exp = Deadline(opts.response_timeout),
                        !.last = [state |-> 0, peer |-> 0]]
    /\ UNCHANGED <<now, poolVars, upsVars, ioVars, up, httpVars>>

\* A failed connect that drops the response instead of answering.
bad_gateway_silent == Finish(0, "error")
\* bad_gateway: 502 "Bad gateway" is sent, the handler answers DECLINED and
\* the response is written out.
bad_gateway == Finish(502, "completed")

\* The flush handler with no context: connect, HttpProxyContext::new and the
\* first proxy() call (st_connecting -> st_connected, WRITE_MORE); a failed
\* connect answers through bad_gateway.  TcpSocket::connect ends with
\* peer_addr(), which fails on a socket that is not connected: a server that
\* cannot be connected fails connect at once, and one that can may still fail.
ProxyConnect ==
    /\ \/ px.pc = "wait" /\ px.peer = 0
       \/ px.pc = "retry"
    /\ \/ ConnectReuse(cfg.timeout)
       \/ \E ok \in BOOLEAN : (ok => up) /\ ConnectNew(cfg.timeout, ok)
    /\ px' = IF res'.out \in {"new", "reuse"}
             THEN [px EXCEPT !.pc = "wait", !.state = st_connected,
                             !.peer = CHOOSE i \in PeerIds :
                                        peer'[i].loc = "caller" /\ peer[i].loc # "caller"]
             ELSE bad_gateway
    /\ UNCHANGED <<upsVars, ioVars, up, httpVars>>

\* proxy() answered Err in state st: the handler releases the peer and loops
\* to connect when st < st_protocol_end, else returns the error, and the
\* reactor drops the response without writing anything.
Failed(p, st, released, saw) ==
    IF st < RetryLimit
    THEN /\ ContextDrop(p, TRUE)
         /\ px' = [px EXCEPT !.pc = "retry", !.peer = 0, !.state = st,
                             !.errors = px.errors + 1, !.noka = px.noka \cup saw,
                             !.last = [state |-> st, peer |-> p]]
    ELSE /\ ContextDrop(p, released)
         /\ px' = [Finish(0, "error") EXCEPT !.state = st,
                             !.errors = px.errors + 1, !.noka = px.noka \cup saw,
                             !.last = [state |-> st, peer |-> p]]

\* HttpProxyContext::parse_response on the bytes of one read, and what
\* proxy() and the flush handler make of its answer.
Parse(p, rd) ==
    LET saw == IF rd.proto = "HTTP/1.0" \/ rd.close THEN {p} ELSE {}
    IN  CASE rd.how = "AGAIN" ->
                /\ peer' = [peer EXCEPT ![p].pool = peer[p].pool /\ ~Releases(rd)]
                /\ px' = [px EXCEPT !.state = rd.stop, !.noka = px.noka \cup saw]
                /\ UNCHANGED pend
          [] rd.how = "Err" -> Failed(p, rd.stop, Releases(rd), saw)
          [] rd.how = "OK" ->
                /\ ContextDrop(p, Releases(rd))
                /\ px' = [Finish(IF rd.len THEN 200 ELSE 502, "completed")
                            EXCEPT !.state = rd.stop, !.noka = px.noka \cup saw]

\* An event on the peer's token: the flush handler takes its context and
\* calls proxy().  A peer past its deadline answers 504; otherwise the
\* request is sent (or sent further) and the response parsed as far as the
\* bytes go.
ProxyFlush(snd, rd) ==
    /\ px.pc = "wait"
    /\ px.peer # 0
    /\ LET p == px.peer
           timedout == peer[p].exp # NoExp /\ peer[p].exp <= now
       IN  IF timedout /\ px.state <= st_parsed
           THEN /\ snd = "OK" /\ rd.stop = st_parsed /\ rd.len /\ ~rd.close
                /\ ContextDrop(p, FALSE)
                /\ px' = Finish(504, "completed")
           ELSE IF px.state < st_request_sent
           THEN CASE snd = "AGAIN" ->
                       /\ rd.stop = st_parsed /\ rd.len /\ ~rd.close
                            /\ rd.proto = "HTTP/1.1"
                       /\ px' = [px EXCEPT !.state = st_request_prepared]
                       /\ UNCHANGED <<peer, pend>>
                  [] snd = "Err" ->
                       /\ rd.stop = st_parsed /\ rd.len /\ ~rd.close
                            /\ rd.proto = "HTTP/1.1"
                       /\ Failed(p, st_request_prepared, FALSE, {})
                  [] snd = "OK" -> Parse(p, rd)
           ELSE /\ snd = "OK"
                /\ Parse(p, rd)
    /\ UNCHANGED <<now, cfg, chan, mon, next_token, res, upsVars, ioVars, up, httpVars>>

\* The reactor's timeout pass: the response deadline has come, the client is
\* removed and dropped with its response (and the context in it); nothing is
\* written.
ProxyTimeout ==
    /\ px.pc = "wait"
    /\ px.exp # NoExp /\ px.exp <= now
    /\ IF px.peer = 0
       THEN UNCHANGED <<peer, pend>>
       ELSE ContextDrop(px.peer, FALSE)
    /\ px' = Finish(0, "timedout")
    /\ UNCHANGED <<now, cfg, chan, mon, next_token, res, upsVars, ioVars, up, httpVars>>

\* The environment: time passes, far enough for the response deadline.
ProxyTick ==
    /\ now < ResponseDur
    /\ now' = now + 1

\* One upstream server behind a pool without limits, a listener with or
\* without response_timeout, the server reachable or not.
ProxyStart ==
    /\ now = 0
    /\ cfg = with_timeouts(0, 0, ProxyDur, UsizeMax)
    /\ peer = [i \in PeerIds |-> NoPeer]
    /\ pend = {}
    /\ chan = <<>>
    /\ mon = {}
    /\ next_token = 1
    /\ res = [out |-> "none", before |-> 0]
    /\ opts \in [request_timeout : {0}, response_timeout : {0, ResponseDur},
                 keepalive_timeout : {0}, keepalive_requests : {0}]
    /\ conn = <<>>
    /\ clients = {}
    /\ keepalive = {}
    /\ workers = {}
    /\ ready = <<>>
    /\ unique_token = 0
    /\ px = NoProxy
    /\ up \in BOOLEAN

ProxyInit == ProxyStart /\ UpsIdle /\ HttpIdle

ProxyNext ==
    \/ ProxyBegin
    \/ ProxyConnect
    \/ \E snd \in {"OK", "AGAIN", "Err"}, rd \in ReadOutcomes(px.state) : ProxyFlush(snd, rd)
    \/ ProxyTimeout
    \/ ProxyTick /\ UNCHANGED <<poolVars, upsVars, ioVars, pxVars, httpVars>>
    \/ \E w \in pend : SendAdd(w) /\ UNCHANGED <<upsVars, ioVars, pxVars, httpVars>>
    \/ MonitorRecv /\ UNCHANGED <<upsVars, ioVars, pxVars, httpVars>>
    \/ \E w \in mon, ev \in {"readable", "read_closed", "error"} :
            MonitorEvent(w, ev) /\ UNCHANGED <<upsVars, ioVars, pxVars, httpVars>>
    \/ RetainTimedout /\ UNCHANGED <<upsVars, ioVars, pxVars, httpVars>>

SpecProxy == ProxyInit /\ [][ProxyNext]_vars

\* The client socket of a response is registered for writing, so the poll
\* hands the response to the flush handler.
SpecProxyFair == SpecProxy /\ WF_vars(ProxyConnect)

(***************************************************************************)
(* Properties of the reactor                                               *)
(***************************************************************************)

\* C1: on one client connection the reads of request N come before the
\* worker call for request N, which comes before the writes of response N,
\* which come before the reads of request N+1.  Stated on the record of
\* operations: a read belongs to the request after the last flushed response
\* and no worker call has been made for it; a worker call is for a request
\* already read whose response is not yet written; a write is for a request
\* the worker has returned.
C1_RequestOrder ==
    \A c \in Conns :
        LET k == conn[c]
        IN  /\ k.flushed <= k.worked /\ k.worked <= k.parsed /\ k.parsed <= k.flushed + 1
            /\ k.ev.kind = "read" => k.ev.n = k.flushed + 1 /\ k.ev.n = k.worked + 1
            /\ k.ev.kind = "work" => k.ev.n <= k.parsed /\ k.ev.n = k.flushed + 1
            /\ k.ev.kind = "write" => k.ev.n <= k.worked /\ k.ev.n \in {k.flushed, k.flushed + 1}

\* The second request of a connection is being read after the first has been
\* read, handled and answered.
C1_Witness ==
    \E c \in Conns : /\ conn[c].ev = [kind |-> "read", n |-> 2]
                     /\ conn[c].flushed = 1
                     /\ conn[c].st = "open"

\* C8: with keepalive_requests = k, a completed response that is not the
\* k-th leaves the connection open, Idle, registered for reading and armed
\* with keepalive_timeout; the k-th completed response closes the socket,
\* so an open connection has served fewer than k responses.
C8_KeepaliveRequests ==
    /\ [](\A c \in Conns :
            /\ conn[c].requests <= opts.keepalive_requests
            /\ conn[c].st = "open" => conn[c].requests < opts.keepalive_requests
            /\ conn[c].closed_by = "keepalive_requests" =>
                   conn[c].requests = opts.keepalive_requests)
    /\ [](\A e \in clients :
            e.item = "Idle" /\ conn[e.c].requests > 0 =>
                /\ conn[e.c].interest = "READABLE"
                /\ Key(conn[e.c].exp, e.token) \subseteq keepalive
                /\ opts.keepalive_timeout # 0 => conn[e.c].exp # NoExp)
    /\ [][\A c \in Conns :
            conn'[c].requests = conn[c].requests + 1 =>
                IF conn'[c].requests = opts.keepalive_requests
                THEN conn'[c].st = "closed" /\ ~(\E e \in clients' : e.c = c)
                ELSE /\ conn'[c].st = "open"
                     /\ conn'[c].exp = Deadline(opts.keepalive_timeout)
                     /\ \E e \in clients' : e.c = c /\ e.item = "Idle"]_vars

\* A connection has been closed on completing its keepalive_requests-th
\* response, after having been kept open by the response before it.
C8_Witness ==
    \E c \in Conns : /\ conn[c].closed_by = "keepalive_requests"
                     /\ conn[c].requests = MaxKeepalive
                     /\ opts.keepalive_requests = MaxKeepalive

(***************************************************************************)
(* Properties of the upstream                                              *)
(***************************************************************************)

\* C4: Upstream.connect tries the balancer's picks in the primary set, then,
\* when the primary set is exhausted, the servers of the backup set; it
\* answers "Bad gateway" only when both sets are exhausted.
C4_BackupTriedBeforeBadGateway ==
    ups.out = "Bad gateway" =>
        \A a \in ups.primary \cup ups.backup :
            \E k \in 1..Len(ups.tried) : ups.tried[k] = a

\* connect has answered "Bad gateway" below the connection limit while a
\* backup server it never tried would have handed out a peer.
C4_Witness ==
    /\ ups.out = "Bad gateway"
    /\ \E a \in ups.backup \cap avail : \A k \in 1..Len(ups.tried) : ups.tried[k] # a

(***************************************************************************)
(* Properties of the connection pool                                       *)
(***************************************************************************)

\* C2: the number of checked-out peers of a pool never exceeds max_active,
\* and a connect issued while active() = max_active is rejected with the
\* max_active error: it neither opens nor reuses a connection.
C2_ActiveWithinMax ==
    /\ active(OrigPool) <= cfg.max_active
    /\ Cardinality({i \in PeerIds : peer[i].loc = "caller" /\ peer[i].active}) <= cfg.max_active
    /\ res.before = cfg.max_active => res.out = "max_active"
    /\ res.out \in {"new", "reuse", "error"} => res.before < cfg.max_active

\* A connect has been rejected while max_active peers are checked out.
C2_Witness ==
    /\ res.out = "max_active"
    /\ active(OrigPool) = cfg.max_active
    /\ \E i \in PeerIds : peer[i].loc = "caller"

\* C3: the idle set never holds more than max_keepalive peers (a peer
\* returned while idle() = max_keepalive is closed instead of pooled).
C3_IdleWithinMax == Cardinality(IdleSet) <= cfg.max_keepalive

\* Two peers sit in the idle set of a pool configured with max_keepalive = 1.
C3_Witness == cfg.max_keepalive = 1 /\ Cardinality(IdleSet) = 2

C5_RetryBeforeProtocolEnd ==
    /\ [](px.pc = "retry" => /\ px.last.state < st_protocol_end
                              /\ peer[px.last.peer].loc = "closed")
    /\ [](px.out = "error" => /\ px.last.state >= st_protocol_end
                               /\ px.status = 0)
    /\ [][px'.errors # px.errors =>
            IF px'.last.state < st_protocol_end
            THEN px'.pc = "retry"
            ELSE px'.pc = "idle" /\ px'.out = "error"]_vars

\* C5 (as the claim has it): an error is retried exactly when the response
\* headers have not yet been received.
C5_RetryBeforeHeaders ==
    [][px'.errors # px.errors =>
            (px'.pc = "retry" <=> px'.last.state < st_headers_end)]_vars

\* An error before st_protocol_end was retried and a second peer connected.
C5_Witness ==
    /\ px.errors >= 1
    /\ px.last.state < st_protocol_end
    /\ px.pc = "wait"
    /\ px.peer # 0
    /\ px.peer # px.last.peer
    /\ peer[px.last.peer].loc = "closed"

C7_GatewayTimeout ==
    [][(/\ px.pc = "wait"
        /\ px.peer # 0
        /\ peer[px.peer].exp # NoExp
        /\ peer[px.peer].exp < now
        /\ px.state < st_parsed
        /\ px'.pc = "idle") => px'.status = 504]_vars

\* The peer deadline armed from proxy_timeout has passed, the response is not
\* parsed, and the request is still waiting without a 504.
C7_Witness ==
    /\ px.pc = "wait"
    /\ px.peer # 0
    /\ peer[px.peer].exp = ProxyDur
    /\ peer[px.peer].exp < now
    /\ px.state < st_parsed
    /\ px.status = 0

\* C10: a peer on which an HTTP/1.0 status line or a "Connection: close"
\* header was read is cut from its pool; it is held by the exchange that
\* read it and closed afterwards, never idle, never handed out again.
C10_NotKeepalive ==
    /\ [](\A i \in px.noka :
            /\ ~peer[i].pool
            /\ peer[i].loc \in {"caller", "closed"}
            /\ peer[i].loc = "caller" => px.peer = i)
    /\ [][\A i \in px.noka : peer[i].loc = "closed" => peer'[i].loc = "closed"]_vars

\* An HTTP/1.0 or Connection: close response was proxied to the end, its
\* peer is closed, and the next exchange holds another peer.
C10_Witness ==
    \E i \in px.noka :
        /\ peer[i].loc = "closed"
        /\ px.served >= 1
        /\ px.pc = "wait"
        /\ px.peer # 0

(***************************************************************************)
(* One client connection of the HTTP server: request, worker, response     *)
(***************************************************************************)

MaxExchanges == 2          \* requests served on the connection
RequestDur == MaxTime      \* request, response and keep-alive timeouts, in ticks

\* HttpParseState of the request parser (internal/request.rs): the states the
\* parser can stop in with an error, and its two ends.
rq_st_unparsed == 0
rq_st_method == 1
rq_st_query == 5
rq_st_protocol == 7
rq_st_protocol_end == 8
rq_st_headers == 9
rq_st_headers_end == 10
rq_st_body == 11
rq_st_parsed == 12

\* HttpStatus.
HTTP_OK == 200
BAD_REQUEST == 400
NOT_FOUND == 404
REQUEST_TIMEOUT == 408

\* What internal::HttpRequest::parse can return when it has read the input
\* from state cur on: the parser state it stopped in, and the result.
\*   throw  http_throw!: invalid query string, unsupported protocol version,
\*          invalid header line
\*   fatal  http_fatal!: unsupported method, read error, client closed in the
\*          middle of a request
ParseOutcomes(cur) ==
    {[rc |-> "OK", state |-> rq_st_parsed]}
    \cup {[rc |-> "AGAIN", state |-> s] :
            s \in {t \in {rq_st_method, rq_st_query, rq_st_headers, rq_st_body} : t >= cur}}
    \cup {[rc |-> "throw", state |-> s] :
            s \in {t \in {rq_st_query, rq_st_protocol, rq_st_headers} : t >= cur}}
    \cup {[rc |-> "fatal", state |-> s] :
            s \in {t \in {rq_st_method, rq_st_headers, rq_st_body} : t >= cur}}
    \cup (IF cur = rq_st_unparsed THEN {[rc |-> "DECLINED", state |-> cur]} ELSE {})

\* HttpRequest::is_mailformed.
is_mailformed(state) == state < rq_st_parsed

\* Request::parse treating every error of the parser as an error.
RequestParse_strict(o) ==
    CASE o.rc \in {"throw", "fatal"} -> "Err"
      [] OTHER -> o.rc

\* Request::parse of HttpRequest: a fatal error is thrown on, any other error
\* is swallowed and the request goes to the worker as it is.
RequestParse(o) ==
    CASE o.rc = "fatal" -> "Err"
      [] o.rc = "throw" -> "OK"
      [] OTHER -> o.rc

\* The connection after accept(): an idle client armed with request_timeout.
Accepted ==
    [st |-> "idle", state |-> rq_st_unparsed, received |-> 0,
     exp |-> Deadline(opts.request_timeout), proto |-> "HTTP/1.0", close |-> FALSE,
     log |-> <<>>, status |-> 0, closed |-> FALSE,
     parsed_as |-> "none", wire |-> <<>>, logged |-> <<>>, requests |-> 0,
     closed_by |-> "open"]

\* deregister without a further insert: the client is dropped, its socket closes.
HttpDrop(k, why) == [k EXCEPT !.st = "closed", !.exp = NoExp, !.closed_by = why]

\* handle_io on a readable event of an Idle or Request item. o is what the
\* parser makes of the bytes read, head the request line and headers it saw.
HttpRead(o, proto, close) ==
    /\ hc.st \in {"idle", "request"}
    /\ hc.st = "idle" => Len(hc.wire) < MaxExchanges
    /\ o \in ParseOutcomes(hc.state)
    /\ LET armed == IF hc.st = "idle" THEN Deadline(opts.request_timeout) ELSE hc.exp
           got == [hc EXCEPT !.state = o.state, !.parsed_as = o.rc,
                             !.received = IF o.rc = "DECLINED" THEN @ ELSE 1,
                             !.proto = IF o.state > rq_st_protocol THEN proto ELSE "HTTP/1.0",
                             !.close = IF o.state > rq_st_headers THEN close ELSE FALSE]
           rc == RequestParse(o)
       IN  hc' = CASE rc = "OK" -> [got EXCEPT !.st = "worker", !.exp = NoExp]
                   [] rc = "AGAIN" -> [got EXCEPT !.st = "request", !.exp = armed]
                   [] rc = "DECLINED" -> HttpDrop(got, "client_closed")
                   [] OTHER -> HttpDrop(got, "error")
    /\ UNCHANGED <<now, poolVars, upsVars, ioVars, pxVars, rq, rsp, rt>>

\* The worker runs the server's content handler. A malformed request gets
\* 400 and never reaches the routing; any other request is routed, which
\* registers the server's log handlers, then the route's.
HttpWork(status, routed) ==
    /\ hc.st = "worker"
    /\ hc' = IF is_mailformed(hc.state)
             THEN [hc EXCEPT !.st = "ready", !.status = BAD_REQUEST, !.closed = TRUE]
             ELSE [hc EXCEPT !.st = "ready", !.status = status, !.closed = FALSE,
                             !.log = IF routed THEN <<"server", "route">> ELSE <<"server">>]
    /\ UNCHANGED <<now, poolVars, upsVars, ioVars, pxVars, rq, rsp, rt>>

\* The SIGNAL event: the response is registered for writing and armed with
\* response_timeout.
HttpSignal ==
    /\ hc.st = "ready"
    /\ hc' = [hc EXCEPT !.st = "response", !.exp = Deadline(opts.response_timeout)]
    /\ UNCHANGED <<now, poolVars, upsVars, ioVars, pxVars, rq, rsp, rt>>

\* Whether handle_io calls Response::close (which runs the log handlers) on
\* the drained response: only in the Flush::OK(None) arm.
close_called(k) == ~k.closed

\* handle_io on a writable event of a Response item. w is what the socket
\* takes: everything (OK), a part (AGAIN) or nothing any more (Err).
HttpFlush(w) ==
    /\ hc.st = "response"
    /\ LET k == [hc EXCEPT !.closed = @ \/ hc.proto = "HTTP/1.0" \/ hc.close]
           sent == [k EXCEPT !.wire = Append(@, k.status)]
           done == [sent EXCEPT !.logged = IF close_called(sent)
                                           THEN Append(@, [n |-> Len(sent.wire), by |-> sent.log])
                                           ELSE @,
                                !.log = <<>>,
                                !.requests = @ + 1]
       IN  hc' = CASE w = "AGAIN" -> k
                   [] w = "Err" -> HttpDrop(k, "send_error")
                   [] sent.closed -> HttpDrop(sent, "response_closed")
                   [] done.requests = opts.keepalive_requests -> HttpDrop(done, "keepalive_requests")
                   [] OTHER -> [done EXCEPT !.st = "idle", !.state = rq_st_unparsed,
                                            !.received = 0, !.status = 0, !.closed = FALSE,
                                            !.parsed_as = "none",
                                            !.proto = "HTTP/1.0", !.close = FALSE,
                                            !.exp = Deadline(opts.keepalive_timeout)]
    /\ UNCHANGED <<now, poolVars, upsVars, ioVars, pxVars, rq, rsp, rt>>

\* The timeout pass of the reactor: the client is deregistered and dropped;
\* on_timedout is an empty default and nothing is written.
HttpTimeout ==
    /\ hc.st \in {"idle", "request", "response"}
    /\ hc.exp # NoExp
    /\ hc.exp <= now
    /\ hc' = HttpDrop(hc, IF hc.st = "idle" THEN "idle_timedout"
                          ELSE IF hc.st = "request" THEN "request_timedout"
                          ELSE "response_timedout")
    /\ UNCHANGED <<now, poolVars, upsVars, ioVars, pxVars, rq, rsp, rt>>

HttpStart ==
    /\ now = 0
    /\ opts \in [request_timeout : {0, RequestDur}, response_timeout : {0, RequestDur},
                 keepalive_timeout : {0, RequestDur}, keepalive_requests : {0, MaxExchanges}]
    /\ conn = <<>>
    /\ clients = {}
    /\ keepalive = {}
    /\ workers = {}
    /\ ready = <<>>
    /\ unique_token = 0
    /\ hc = Accepted

HttpInit ==
    HttpStart /\ PoolUnused /\ UpsIdle /\ PxIdle
        /\ rq = NoRequest /\ rsp = NoResponse /\ rt = NoRouting

HttpNext ==
    \/ \E o \in ParseOutcomes(hc.state), proto \in {"HTTP/1.0", "HTTP/1.1"}, close \in BOOLEAN :
            HttpRead(o, proto, close)
    \/ \E status \in {HTTP_OK, NOT_FOUND}, routed \in BOOLEAN : HttpWork(status, routed)
    \/ HttpSignal
    \/ \E w \in {"OK", "AGAIN", "Err"} : HttpFlush(w)
    \/ HttpTimeout
    \/ Tick /\ UNCHANGED <<poolVars, upsVars, ioVars, pxVars, httpVars>>

SpecHttp == HttpInit /\ [][HttpNext]_vars

(***************************************************************************)
(* The request parser: query string                                        *)
(***************************************************************************)

MaxPairs == 3              \* key/value pairs of a query string

\* Encoded keys and values a client may send: plain, upper case, a
\* percent-encoded byte, empty.
Words == {<<"a">>, <<"A">>, <<"%", "a", "b">>, <<>>}

HexDigits == {"a", "b", "A"}

\* HttpRequest::url_decode: percent_decode, then decode_utf8_lossy. "%" and
\* two hex digits become one byte; the byte 0xAB alone is no UTF-8 and is
\* replaced by U+FFFD.
RECURSIVE url_decode(_)
url_decode(w) ==
    IF w = <<>> THEN <<>>
    ELSE IF w[1] = "%" /\ Len(w) >= 3 /\ w[2] \in HexDigits /\ w[3] \in HexDigits
         THEN <<"U+FFFD">> \o url_decode(SubSeq(w, 4, Len(w)))
         ELSE <<w[1]>> \o url_decode(Tail(w))

\* Key::from: unicase::Ascii compares and hashes keys without case.
KeyOf(k) == [i \in 1..Len(k) |-> IF k[i] = "A" THEN "a" ELSE k[i]]

\* self.args.entry(Key::from(k)).or_default().push_back(v)
push_arg(args, k, v) ==
    LET key == KeyOf(k)
    IN  [x \in DOMAIN args \cup {key} |->
            IF x = key
            THEN (IF key \in DOMAIN args THEN Append(args[key], v) ELSE <<v>>)
            ELSE args[x]]

\* KeyVal::default()
NoArgs == [x \in {} |-> <<>>]

\* Option<Vec<u8>> of context.val: whether it is Some, and the bytes.
NoVal == [some |-> FALSE, v |-> <<>>]

SomeVal(v) == [some |-> TRUE, v |-> v]

\* The query string "k1=v1&k2=v2&...&kn=vn" and the space that ends it in the
\* request line.
RECURSIVE QueryString(_)
QueryString(pairs) ==
    IF Len(pairs) = 1 THEN pairs[1].k \o <<"=">> \o pairs[1].v \o <<" ">>
    ELSE pairs[1].k \o <<"=">> \o pairs[1].v \o <<"&">> \o QueryString(Tail(pairs))

\* One turn of the getc loop of parse_args on the byte c.
args_getc(q, c) ==
    CASE c = "=" -> [q EXCEPT !.args = NoArgs, !.val = SomeVal(<<>>)]
      [] c = " " ->
            IF q.val.some
            THEN [q EXCEPT !.args = push_arg(q.args, url_decode(q.key), url_decode(q.val.v)),
                           !.key = <<>>, !.val = NoVal, !.rc = "OK"]
            ELSE [q EXCEPT !.key = <<>>, !.val = NoVal, !.rc = "OK"]
      [] c = "&" ->
            IF q.val.some
            THEN [q EXCEPT !.args = push_arg(q.args, url_decode(q.key), url_decode(q.val.v)),
                           !.key = <<>>, !.val = NoVal]
            ELSE [q EXCEPT !.rc = "Invalid query string"]
      [] OTHER ->
            IF q.val.some
            THEN [q EXCEPT !.val = SomeVal(Append(@.v, c)), !.query_string = Append(@, c)]
            ELSE [q EXCEPT !.key = Append(@, c), !.query_string = Append(@, c)]

\* HttpRequest::parse_args on the bytes of the buffer from position i on;
\* read_more! returns AGAIN when the buffer ends first.
RECURSIVE parse_args(_, _)
parse_args(q, i) ==
    IF q.rc # "more" THEN [q EXCEPT !.pos = i]
    ELSE IF i > Len(q.buf) THEN [q EXCEPT !.pos = i, !.rc = "AGAIN"]
    ELSE parse_args(args_getc(q, q.buf[i]), i + 1)

\* The parser has read "GET /uri?" and the buffer holds the query string.
QueryStart ==
    \E n \in 1..MaxPairs : \E pairs \in [1..n -> [k : Words, v : Words]] :
        rq = [rc |-> "st_query", pairs |-> pairs, buf |-> QueryString(pairs), pos |-> 1,
              key |-> <<>>, val |-> NoVal, args |-> NoArgs, query_string |-> <<>>]

ParseArgs ==
    /\ rq.rc = "st_query"
    /\ rq' = parse_args([rq EXCEPT !.rc = "more"], rq.pos)
    /\ UNCHANGED <<now, poolVars, upsVars, ioVars, pxVars, hc, rsp, rt>>

QueryInit == QueryStart /\ now = 0 /\ PoolUnused /\ UpsIdle /\ IoIdle /\ PxIdle /\ hc = NoHttp /\ rsp = NoResponse
        /\ rt = NoRouting

SpecQuery == QueryInit /\ [][ParseArgs]_vars

(***************************************************************************)
(* The request parser: headers, 100-continue and body over the Buffer      *)
(***************************************************************************)

BufSize == 4               \* the size Buffer::read gives an empty buffer (4096)
MaxBody == 2               \* largest Content-Length
MaxExtra == 1              \* bytes the client sends after the body

\* The interim reply "HTTP/1.1 100 Continue\r\ncontent-length: 0\r\n\r\n",
\* written as two tokens.
Continue100 == <<"100 Continue", "CRLF CRLF">>

\* Content-Length absent: Option<usize>::None.
NoLen == -1

Min(a, b) == IF a < b THEN a ELSE b

\* n zero bytes, as Vec::resize(len, 0) appends them.
Zeros(n) == [i \in 1..n |-> "0"]

\* Buffer::default / Buffer::reset
EmptyBuffer == [data |-> <<>>, rpos |-> 0, wpos |-> 0, end |-> 0]

\* Buffer::read with the bytes net waiting in the socket: the new buffer and
\* the number of bytes taken.
buffer_read(b, net) ==
    LET len == IF b.end >= Len(b.data) \div 2
               THEN (IF Len(b.data) = 0 THEN BufSize ELSE Len(b.data) * 2)
               ELSE Len(b.data)
        data == b.data \o Zeros(len - Len(b.data))
        sz == Min(Len(net), len)
    IN  [buf |-> [b EXCEPT !.data = SubSeq(net, 1, sz) \o SubSeq(data, sz + 1, len),
                           !.end = b.end + sz],
         sz |-> sz]

\* Buffer::extend
buffer_extend(b, slice) == [b EXCEPT !.data = @ \o slice, !.end = @ + Len(slice)]

\* Buffer::write to a socket that takes at most room bytes: the new buffer
\* and the bytes that went out.
buffer_write(b, room) ==
    IF b.end > b.wpos
    THEN LET sz == Min(room, b.end - b.wpos)
         IN  [buf |-> [b EXCEPT !.wpos = @ + sz],
              out |-> SubSeq(b.data, b.wpos + 1, b.wpos + sz)]
    ELSE [buf |-> b, out |-> <<>>]

\* Buffer::tail: the bytes from rpos to end.
buffer_tail(b) == SubSeq(b.data, b.rpos + 1, b.end)

\* ClientContext::read: reset the buffer, then read what the socket holds.
\* No bytes and an open socket is WouldBlock (AGAIN), no bytes after the
\* client's close is end of file (DECLINED).
client_read(r) ==
    LET rd == buffer_read(EmptyBuffer, r.net)
    IN  IF rd.sz > 0
        THEN [rc |-> "OK", r |-> [r EXCEPT !.buf = rd.buf,
                                          !.net = SubSeq(@, rd.sz + 1, Len(@))]]
        ELSE [rc |-> IF r.fin THEN "DECLINED" ELSE "AGAIN", r |-> [r EXCEPT !.buf = rd.buf]]

\* HttpRequest::parse_headers. The header block is the bytes up to the LF of
\* the empty line (token "E"); the block carries Content-Length and Expect.
RECURSIVE parse_headers(_)
parse_headers(r) ==
    IF r.state > rq_st_headers THEN r
    ELSE IF r.buf.rpos < r.buf.end
    THEN LET c == r.buf.data[r.buf.rpos + 1]
             got == [r EXCEPT !.buf.rpos = @ + 1, !.state = rq_st_headers]
         IN  IF c = "E"
             THEN [got EXCEPT !.state = rq_st_headers_end,
                              !.content_length = r.sent.n,
                              !.expect_100_continue = r.sent.expect]
             ELSE parse_headers(got)
    ELSE LET m == client_read(r)
         IN  CASE m.rc = "OK" -> parse_headers([m.r EXCEPT !.state = rq_st_headers])
               [] m.rc = "AGAIN" -> [m.r EXCEPT !.state = rq_st_headers, !.rc = "AGAIN"]
               [] OTHER -> [m.r EXCEPT !.state = rq_st_headers, !.rc = "fatal"]

\* The loop of HttpRequest::read_body.
RECURSIVE read_body(_)
read_body(r) ==
    IF ~r.body.some
    THEN read_body([r EXCEPT !.body = SomeVal(buffer_tail(r.buf)), !.buf.rpos = r.buf.end])
    ELSE IF Len(r.body.v) = r.content_length
    THEN [r EXCEPT !.state = rq_st_parsed, !.rc = "OK"]
    ELSE LET m == client_read(r)
         IN  CASE m.rc = "OK" ->
                    read_body([m.r EXCEPT !.body = SomeVal(r.body.v \o buffer_tail(m.r.buf)),
                                          !.buf.rpos = m.r.buf.end])
               [] m.rc = "AGAIN" -> [m.r EXCEPT !.rc = "AGAIN"]
               [] OTHER -> [m.r EXCEPT !.rc = "fatal"]

\* HttpRequest::parse from the headers on; room is what the client socket
\* accepts of a write.
parse(r, room) ==
    LET h == parse_headers(r)
    IN  IF h.rc # "run" THEN h
        ELSE IF h.expect_100_continue
        THEN LET w == buffer_write(buffer_extend(h.buf, Continue100), room)
             IN  [h EXCEPT !.buf = w.buf, !.out = @ \o w.out, !.flushed = TRUE,
                           !.expect_100_continue = FALSE, !.rc = "AGAIN"]
        ELSE IF h.content_length > 0
        THEN read_body([h EXCEPT !.state = rq_st_body])
        ELSE [h EXCEPT !.state = rq_st_parsed, !.rc = "OK"]

\* The request line has been read and its buffer used up. The client will
\* send the header block, n body bytes and possibly more.
BodyStart ==
    \E n \in {NoLen} \cup 0..MaxBody, expect \in BOOLEAN, hlen \in 1..2, extra \in 0..MaxExtra :
        LET body == [i \in 1..(IF n = NoLen THEN 0 ELSE n) |-> <<"b", i>>]
        IN  rq = [rc |-> "AGAIN", state |-> rq_st_protocol_end,
                  sent |-> [n |-> n, expect |-> expect, body |-> body],
                  client |-> SubSeq(<<"h", "E">>, 3 - hlen, 2) \o body \o [i \in 1..extra |-> "x"],
                  net |-> <<>>, fin |-> FALSE, buf |-> EmptyBuffer,
                  content_length |-> NoLen, expect_100_continue |-> FALSE,
                  body |-> NoVal, out |-> <<>>, flushed |-> FALSE]

\* k more bytes of the client reach the socket.
BodyArrive(k) ==
    /\ rq.rc = "AGAIN"
    /\ k \in 1..Len(rq.client)
    /\ rq' = [rq EXCEPT !.net = @ \o SubSeq(rq.client, 1, k),
                        !.client = SubSeq(@, k + 1, Len(@))]
    /\ UNCHANGED <<now, poolVars, upsVars, ioVars, pxVars, hc, rsp, rt>>

\* The client closes its side.
BodyFin ==
    /\ rq.rc = "AGAIN"
    /\ rq.client = <<>>
    /\ ~rq.fin
    /\ rq' = [rq EXCEPT !.fin = TRUE]
    /\ UNCHANGED <<now, poolVars, upsVars, ioVars, pxVars, hc, rsp, rt>>

\* handle_io on a readable event of the Request item.
BodyParse(room) ==
    /\ rq.rc = "AGAIN"
    /\ rq.net # <<>> \/ rq.fin
    /\ rq' = parse([rq EXCEPT !.rc = "run"], room)
    /\ UNCHANGED <<now, poolVars, upsVars, ioVars, pxVars, hc, rsp, rt>>

BodyInit == BodyStart /\ now = 0 /\ PoolUnused /\ UpsIdle /\ IoIdle /\ PxIdle /\ hc = NoHttp /\ rsp = NoResponse
        /\ rt = NoRouting

BodyNext ==
    \/ \E k \in 1..(2 + MaxBody + MaxExtra) : BodyArrive(k)
    \/ BodyFin
    \/ \E room \in {1, 2 * BufSize + 2} : BodyParse(room)

SpecBody == BodyInit /\ [][BodyNext]_vars

(***************************************************************************)
(* The response writer                                                     *)
(***************************************************************************)

MaxCalls == 2              \* calls the content handler makes on the response
MaxChunk == 2              \* bytes of one chunk or body

NO_CONTENT == 204

CRLF == <<"CR", "LF">>

\* Bodies and chunks a handler may pass: byte strings up to MaxChunk bytes.
Chunks == UNION {[1..n -> {"a", "LF"}] : n \in 0..MaxChunk}

\* format!("{:x}", n)
RECURSIVE LowerHex(_)
LowerHex(n) ==
    LET digit == <<"0", "1", "2", "3", "4", "5", "6", "7",
                   "8", "9", "a", "b", "c", "d", "e", "f">>[(n % 16) + 1]
    IN  IF n < 16 THEN <<digit>> ELSE Append(LowerHex(n \div 16), digit)

\* HttpResponse::new
NewResponse(protocol) ==
    [protocol |-> protocol, status |-> HTTP_OK, content_length |-> NoLen, chunked |-> FALSE,
     headers_sent |-> FALSE, body_sent |-> FALSE, body |-> NoVal,
     wire |-> <<>>, calls |-> 0, done |-> FALSE]

\* HttpResponse::set_content_length
set_content_length(r, len) ==
    IF r.headers_sent THEN r
    ELSE [r EXCEPT !.content_length = len, !.chunked = FALSE]

\* HttpResponse::flush_headers: the framing is settled and the header block
\* is written; the block is one token that names the framing.
flush_headers(r) ==
    IF r.headers_sent THEN r
    ELSE LET f == IF r.status = NO_CONTENT
                  THEN [r EXCEPT !.chunked = FALSE, !.content_length = NoLen, !.body = NoVal]
                  ELSE IF r.content_length # NoLen
                  THEN [r EXCEPT !.chunked = FALSE]
                  ELSE [r EXCEPT !.chunked = (r.protocol = "HTTP/1.1")]
             head == IF f.chunked THEN "Transfer-Encoding: chunked"
                     ELSE IF f.content_length # NoLen THEN "Content-Length"
                     ELSE "no framing"
         IN  [f EXCEPT !.wire = Append(@, head), !.headers_sent = TRUE]

\* HttpResponse::send_body_chunk; data is a chunk or NoVal for None.
send_body_chunk(r, data) ==
    IF r.body_sent THEN r
    ELSE LET h == flush_headers(r)
             size == IF h.chunked THEN LowerHex(Len(data.v)) \o CRLF ELSE <<>>
             trail == IF h.chunked THEN CRLF ELSE <<>>
         IN  [h EXCEPT !.wire = @ \o size \o data.v \o trail]

\* HttpResponse::flush_body
flush_body(r) ==
    IF r.body_sent THEN r
    ELSE IF r.body.some
    THEN [send_body_chunk(set_content_length(r, Len(r.body.v)), r.body) EXCEPT !.body_sent = TRUE]
    ELSE flush_headers(r)

\* The calls of a content handler on the response.
Calls ==
    {[op |-> "send_body_chunk", arg |-> SomeVal(c)] : c \in Chunks}
    \cup {[op |-> "send_body_chunk", arg |-> NoVal]}
    \cup {[op |-> o, arg |-> SomeVal(c)] : o \in {"set_body", "append_body"}, c \in Chunks}
    \cup {[op |-> "set_chunked", arg |-> NoVal], [op |-> "send_no_content", arg |-> NoVal]}

\* http::HttpResponse: send_body_chunk, set_body, append_body, set_chunked,
\* send(NO_CONTENT, _, None).
call(r, c) ==
    CASE c.op = "send_body_chunk" -> send_body_chunk(r, c.arg)
      [] c.op = "set_body" ->
            [set_content_length(r, Len(c.arg.v)) EXCEPT !.body = c.arg]
      [] c.op = "append_body" ->
            LET body == r.body.v \o c.arg.v
                b == [r EXCEPT !.body = SomeVal(body)]
            IN  IF b.chunked THEN b
                ELSE set_content_length(b, IF b.content_length >= Len(body)
                                           THEN b.content_length ELSE Len(body))
      [] c.op = "set_chunked" -> [r EXCEPT !.chunked = TRUE, !.content_length = NoLen]
      [] OTHER ->
            IF r.headers_sent THEN r
            ELSE [r EXCEPT !.status = NO_CONTENT, !.content_length = 0]

\* The content handler makes a call on the response.
ResponseCall(c) ==
    /\ ~rsp.done
    /\ rsp.calls < MaxCalls
    /\ rsp' = [call(rsp, c) EXCEPT !.calls = @ + 1]
    /\ UNCHANGED <<now, poolVars, upsVars, ioVars, pxVars, hc, rq, rt>>

\* HttpResponse::flush with no flush handlers and a socket that takes
\* everything: flush_body, then the buffer goes out.
ResponseFlush ==
    /\ ~rsp.done
    /\ rsp' = [flush_body(rsp) EXCEPT !.done = TRUE]
    /\ UNCHANGED <<now, poolVars, upsVars, ioVars, pxVars, hc, rq, rt>>

ResponseStart == \E protocol \in {"HTTP/1.0", "HTTP/1.1"} : rsp = NewResponse(protocol)

ResponseInit ==
    ResponseStart /\ now = 0 /\ PoolUnused /\ UpsIdle /\ IoIdle /\ PxIdle
        /\ hc = NoHttp /\ rq = NoRequest /\ rt = NoRouting

ResponseNext ==
    \/ \E c \in Calls : ResponseCall(c)
    \/ ResponseFlush

SpecResponse == ResponseInit /\ [][ResponseNext]_vars

(***************************************************************************)
(* The proxy's reader of a chunked upstream body                           *)
(***************************************************************************)

MaxChunks == 2             \* chunks the upstream writes before the last one

\* usize::from_str_radix(s, 16): the value, or -1 for an error.
RECURSIVE from_str_radix16(_)
from_str_radix16(w) ==
    LET digits == <<"0", "1", "2", "3", "4", "5", "6", "7",
                    "8", "9", "a", "b", "c", "d", "e", "f">>
        last == w[Len(w)]
        high == IF Len(w) = 1 THEN 0 ELSE from_str_radix16(SubSeq(w, 1, Len(w) - 1))
    IN  IF w = <<>> \/ high = -1 \/ \A d \in 1..16 : digits[d] # last
        THEN -1
        ELSE high * 16 + (CHOOSE d \in 1..16 : digits[d] = last) - 1

\* The upstream's serialisation of the chunks xs: send_body_chunk for each,
\* then send_body_chunk(None), without the header block.
RECURSIVE send_chunks(_, _)
send_chunks(r, xs) ==
    IF xs = <<>> THEN send_body_chunk(r, NoVal)
    ELSE send_chunks(send_body_chunk(r, SomeVal(xs[1])), Tail(xs))

Chunked(xs) == Tail(send_chunks(NewResponse("HTTP/1.1"), xs).wire)

RECURSIVE Concat(_)
Concat(xs) == IF xs = <<>> THEN <<>> ELSE xs[1] \o Concat(Tail(xs))

\* HttpProxyContext::read_chunk_size. chunk0 is chunk.0, chunk1 is chunk.1
\* (NoLen for None).
RECURSIVE read_chunk_size(_)
read_chunk_size(r) ==
    IF r.chunk1 # NoLen THEN r
    ELSE IF r.buf.rpos < r.buf.end
    THEN LET c == r.buf.data[r.buf.rpos + 1]
             got == [r EXCEPT !.buf.rpos = @ + 1]
         IN  CASE c = "CR" -> read_chunk_size(got)
               [] c = "LF" ->
                    LET size == from_str_radix16(r.chunk0)
                    IN  IF size = -1 THEN [got EXCEPT !.rc = "throw"]
                        ELSE [got EXCEPT !.chunk1 = IF size = 0 THEN NoLen ELSE size,
                                         !.chunk0 = <<>>]
               [] OTHER -> read_chunk_size([got EXCEPT !.chunk0 = Append(@, c)])
    ELSE LET m == client_read(r)
         IN  CASE m.rc = "OK" -> read_chunk_size(m.r)
               [] m.rc = "AGAIN" -> [m.r EXCEPT !.rc = "AGAIN"]
               [] OTHER -> [m.r EXCEPT !.rc = "fatal"]

\* HttpProxyContext::read_chunk after the size line: the chunk's bytes and
\* the two bytes that follow them.
RECURSIVE read_chunk_data(_)
read_chunk_data(r) ==
    IF r.buf.rpos < r.buf.end
    THEN LET got == [r EXCEPT !.buf.rpos = @ + 1,
                              !.chunk0 = Append(@, r.buf.data[r.buf.rpos + 1])]
         IN  IF 2 + r.chunk1 = Len(got.chunk0) THEN got ELSE read_chunk_data(got)
    ELSE LET m == client_read(r)
         IN  CASE m.rc = "OK" -> read_chunk_data(m.r)
               [] m.rc = "AGAIN" -> [m.r EXCEPT !.rc = "AGAIN"]
               [] OTHER -> [m.r EXCEPT !.rc = "fatal"]

\* HttpProxyContext::read_chunk
read_chunk(r) ==
    LET s == read_chunk_size(r)
    IN  IF s.rc # "run" THEN s
        ELSE IF s.chunk1 # NoLen THEN read_chunk_data(s)
        ELSE s

\* HttpProxyContext::read_body for a chunked response.
RECURSIVE read_chunked_body(_)
read_chunked_body(r) ==
    LET c == read_chunk(r)
    IN  IF c.rc # "run" THEN c
        ELSE IF c.chunk1 # NoLen
        THEN read_chunked_body([c EXCEPT !.body = @ \o SubSeq(c.chunk0, 1, c.chunk1),
                                         !.chunk0 = <<>>, !.chunk1 = NoLen])
        ELSE [c EXCEPT !.state = st_parsed, !.rc = "OK"]

\* The response headers of the upstream have been read and named
\* Transfer-Encoding: chunked; the upstream will send the chunks xs.
ChunkedStart ==
    \E n \in 0..MaxChunks : \E xs \in [1..n -> Chunks \ {<<>>}] :
        px = [rc |-> "AGAIN", state |-> st_headers_end, xs |-> xs, client |-> Chunked(xs),
              net |-> <<>>, fin |-> FALSE, buf |-> EmptyBuffer,
              chunk0 |-> <<>>, chunk1 |-> NoLen, body |-> <<>>]

\* k more bytes of the upstream reach the peer socket.
ChunkedArrive(k) ==
    /\ px.rc = "AGAIN"
    /\ k \in 1..Len(px.client)
    /\ px' = [px EXCEPT !.net = @ \o SubSeq(px.client, 1, k),
                        !.client = SubSeq(@, k + 1, Len(@))]
    /\ UNCHANGED <<now, poolVars, upsVars, ioVars, up, httpVars>>

\* The flush handler runs proxy() on a readable event of the peer.
ChunkedRead ==
    /\ px.rc = "AGAIN"
    /\ px.net # <<>>
    /\ px' = read_chunked_body([px EXCEPT !.rc = "run", !.state = st_body])
    /\ UNCHANGED <<now, poolVars, upsVars, ioVars, up, httpVars>>

ChunkedInit ==
    ChunkedStart /\ up = TRUE /\ now = 0 /\ PoolUnused /\ UpsIdle /\ IoIdle /\ HttpIdle

ChunkedNext ==
    \/ \E k \in 1..(MaxChunks * (MaxChunk + 5) + 5) : ChunkedArrive(k)
    \/ ChunkedRead

SpecChunked == ChunkedInit /\ [][ChunkedNext]_vars

(***************************************************************************)
(* TrieRouter                                                              *)
(***************************************************************************)

MaxDepth == 3              \* segments of a route pattern or of a request path
MaxRoutes == 2             \* routes inserted into the trie

\* Route patterns: "/a/*/a" is <<"a", "*", "a">>; a {var} segment is stored
\* under "*". Request paths are made of the segments "a" and "b".
Patterns == UNION {[1..n -> {"a", "*"}] : n \in 1..MaxDepth}

Paths == UNION {[1..n -> {"a", "b"}] : n \in 1..MaxDepth}

\* Option<&Data>::None, and Some(data) of the route inserted at a node.
NoData == [found |-> FALSE, route |-> <<>>]

SomeData(node) == [found |-> TRUE, route |-> node]

\* Option<(&Data, bool)> returned by traverse.
NoMatch == [found |-> FALSE, route |-> <<>>, exact |-> FALSE]

Match(data, exact) == [found |-> TRUE, route |-> data.route, exact |-> exact]

\* TrieRouter::insert: the nodes the routes have created (a node is named by
\* the words leading to it) and the node's context for the method.
has_word(routes, node, word) ==
    \E p \in routes : Len(p) > Len(node) /\ SubSeq(p, 1, Len(node) + 1) = Append(node, word)

context_get(routes, node) == IF node \in routes THEN SomeData(node) ELSE NoData

\* Traverser::traverse(i, node, data) with self.star = star: the result and
\* self.star afterwards. The node is at depth i = Len(node).
RECURSIVE traverse(_, _, _, _, _)
traverse(routes, parts, node, data, star) ==
    LET star1 == IF data.found THEN data ELSE star
        here == context_get(routes, node)
        i == Len(node)
        lp == i < Len(parts) /\ has_word(routes, node, parts[i + 1])
        la == i < Len(parts) /\ has_word(routes, node, "*")
    IN  IF i = Len(parts)
        THEN [res |-> IF here.found THEN Match(here, TRUE) ELSE NoMatch, star |-> star1]
        ELSE IF ~la /\ ~lp
        THEN [res |-> IF here.found THEN Match(here, FALSE) ELSE NoMatch, star |-> star1]
        ELSE LET f1 == IF lp
                       THEN traverse(routes, parts, Append(node, parts[i + 1]), NoData, star1)
                       ELSE [res |-> NoMatch, star |-> star1]
                 f2 == IF ~f1.res.found /\ la
                       THEN traverse(routes, parts, Append(node, "*"), here, f1.star)
                       ELSE f1
             IN  IF f2.res.found THEN f2
                 ELSE [res |-> IF f2.star.found THEN Match(f2.star, FALSE) ELSE NoMatch,
                       star |-> f2.star]

\* TrieRouter::get for the path "/" + parts joined by "/".
get(routes, parts) ==
    IF routes = {} THEN NoMatch
    ELSE traverse(routes, parts, <<>>, NoData, NoData).res

\* Routes have been inserted; a request for a path is to be routed.
TrieStart ==
    \E routes \in SUBSET Patterns, path \in Paths :
        /\ Cardinality(routes) <= MaxRoutes
        /\ rt = [pc |-> "lookup", routes |-> routes, path |-> path, res |-> NoMatch]

TrieGet ==
    /\ rt.pc = "lookup"
    /\ rt' = [rt EXCEPT !.pc = "done", !.res = get(rt.routes, rt.path)]
    /\ UNCHANGED <<now, poolVars, upsVars, ioVars, pxVars, hc, rq, rsp>>

TrieInit ==
    TrieStart /\ now = 0 /\ PoolUnused /\ UpsIdle /\ IoIdle /\ PxIdle
        /\ hc = NoHttp /\ rq = NoRequest /\ rsp = NoResponse

SpecTrie == TrieInit /\ [][TrieGet]_vars

(***************************************************************************)
(* The routing loop of the server's content handler                        *)
(***************************************************************************)

MaxRestarts == 11          \* restarts of the lookup the model follows

\* No rewrite directive.
NoRewrite == <<>>

\* Routes and request URIs of one segment; a rewrite directive names the URI
\* it rewrites to.
RoutePatterns == {p \in Patterns : Len(p) = 1}

Uris == {p \in Paths : Len(p) = 1}

\* phase_handler over the rewrite handlers of a context: the rewrite plugin's
\* handler sets the URI and returns AGAIN; without a handler the phase is
\* DECLINED.
rewrite_phase(target) == IF target = NoRewrite THEN "DECLINED" ELSE "AGAIN"

\* One pass of the loop: lookup, the server's rewrite phase, the route's
\* rewrite phase, then the content handler. No access handlers, regex or
\* named routes are configured.
RouteLookup ==
    /\ rt.pc = "lookup"
    /\ rt.restarts < MaxRestarts
    /\ LET found == get(rt.routes, rt.uri)
           again(target) == [rt EXCEPT !.uri = target, !.restarts = @ + 1]
       IN  rt' = IF rewrite_phase(rt.server_rewrite) = "AGAIN"
                 THEN again(rt.server_rewrite)
                 ELSE IF found.found /\ rewrite_phase(rt.rewrite[found.route]) = "AGAIN"
                 THEN again(rt.rewrite[found.route])
                 ELSE [rt EXCEPT !.pc = "done",
                                 !.content = IF found.found THEN found.route ELSE <<"default">>]
    /\ UNCHANGED <<now, poolVars, upsVars, ioVars, pxVars, hc, rq, rsp>>

\* The server and its routes as configured, and a parsed request.
RoutingStart ==
    \E routes \in SUBSET RoutePatterns, uri \in Uris, server_rewrite \in Uris \cup {NoRewrite} :
        \E rewrite \in [routes -> Uris \cup {NoRewrite}] :
            rt = [pc |-> "lookup", routes |-> routes, rewrite |-> rewrite,
                  server_rewrite |-> server_rewrite, uri |-> uri, restarts |-> 0,
                  content |-> <<>>]

RoutingInit ==
    RoutingStart /\ now = 0 /\ PoolUnused /\ UpsIdle /\ IoIdle /\ PxIdle
        /\ hc = NoHttp /\ rq = NoRequest /\ rsp = NoResponse

SpecRouting == RoutingInit /\ [][RouteLookup]_vars

(***************************************************************************)
(* Named router (http/routers/named.rs), variable rt.  A route is a name   *)
(* with a map from method to context; the regex router's add and replace   *)
(* are the same code over patterns kept longest first.                     *)
(***************************************************************************)

MaxEdits == 3

Names == {"a", "b"}

Methods == {"GET", "*"}

Contexts == {1, 2}

\* A method without an entry in a route's context map.
NoContext == 0

NamedRoute_new(name) == [name |-> name, context |-> [m \in Methods |-> NoContext]]

\* HashMap::entry(method).or_insert(context): an occupied entry is kept.
or_insert(route, method, context) ==
    IF route.context[method] = NoContext
    THEN [route EXCEPT !.context[method] = context]
    ELSE route

\* Vec::remove(i), with the model's indices starting at 1.
vec_remove(routes, i) == SubSeq(routes, 1, i - 1) \o SubSeq(routes, i + 1, Len(routes))

\* The index of the first route with this name, 0 when there is none.
position(routes, name) ==
    IF \E i \in 1..Len(routes) : routes[i].name = name
    THEN CHOOSE i \in 1..Len(routes) :
            /\ routes[i].name = name
            /\ \A j \in 1..(i - 1) : routes[j].name # name
    ELSE 0

named_add(routes, name, method, context) ==
    LET i == position(routes, name)
    IN  IF i # 0
        THEN [routes EXCEPT ![i] = or_insert(@, method, context)]
        ELSE Append(routes, or_insert(NamedRoute_new(name), method, context))

\* replace: the route found at i is removed from the vector and the entry is
\* then made in routes[i], the route that followed it; indexing past the end
\* of the vector panics.
named_replace(routes, name, method, context) ==
    LET i == position(routes, name)
        removed == vec_remove(routes, i)
    IN  IF i # 0
        THEN IF i <= Len(removed)
             THEN [routes |-> [removed EXCEPT ![i] = or_insert(@, method, context)],
                   panicked |-> FALSE]
             ELSE [routes |-> removed, panicked |-> TRUE]
        ELSE [routes |-> Append(routes, or_insert(NamedRoute_new(name), method, context)),
              panicked |-> FALSE]

\* What get() of a request for this name and method yields, NoContext for None.
named_get(routes, name, method) ==
    LET i == position(routes, name)
    IN  IF i = 0 THEN NoContext
        ELSE IF routes[i].context[method] # NoContext THEN routes[i].context[method]
        ELSE routes[i].context["*"]

\* The entry stored for (name, method), NoContext when there is none.
slot(routes, name, method) ==
    LET i == position(routes, name)
    IN  IF i = 0 THEN NoContext ELSE routes[i].context[method]

NamedAdd ==
    /\ rt.pc = "named"
    /\ ~rt.panicked
    /\ rt.calls < MaxEdits
    /\ \E name \in Names, method \in Methods, context \in Contexts :
          rt' = [rt EXCEPT !.prev = rt.routes,
                           !.routes = named_add(rt.routes, name, method, context),
                           !.op = "add", !.name = name, !.method = method,
                           !.context = context, !.calls = @ + 1]
    /\ UNCHANGED <<now, poolVars, upsVars, ioVars, pxVars, hc, rq, rsp>>

NamedReplace ==
    /\ rt.pc = "named"
    /\ ~rt.panicked
    /\ rt.calls < MaxEdits
    /\ \E name \in Names, method \in Methods, context \in Contexts :
          LET r == named_replace(rt.routes, name, method, context)
          IN  rt' = [rt EXCEPT !.prev = rt.routes,
                               !.routes = r.routes, !.panicked = r.panicked,
                               !.op = "replace", !.name = name, !.method = method,
                               !.context = context, !.calls = @ + 1]
    /\ UNCHANGED <<now, poolVars, upsVars, ioVars, pxVars, hc, rq, rsp>>

\* NamedRouter::new(): no routes.
NamedStart ==
    rt = [pc |-> "named", routes |-> <<>>, prev |-> <<>>, op |-> "new",
          name |-> "a", method |-> "*", context |-> NoContext,
          panicked |-> FALSE, calls |-> 0]

NamedInit ==
    NamedStart /\ now = 0 /\ PoolUnused /\ UpsIdle /\ IoIdle /\ PxIdle
        /\ hc = NoHttp /\ rq = NoRequest /\ rsp = NoResponse

NamedNext == NamedAdd \/ NamedReplace

SpecNamed == NamedInit /\ [][NamedNext]_vars

(***************************************************************************)
(* The pool with its threads scheduled fairly: set_keepalive goes on to    *)
(* send its Add once the mutex is released, the monitor thread loops over  *)
(* try_recv and retain_timedout, and the clock advances.  The callers      *)
(* (connect, drop, release) and socket errors are not forced to happen.    *)
(***************************************************************************)
PoolFairness ==
    /\ WF_vars(\E w \in pend : SendAdd(w) /\ UNCHANGED <<upsVars, ioVars, pxVars, httpVars>>)
    /\ WF_vars(MonitorRecv /\ UNCHANGED <<upsVars, ioVars, pxVars, httpVars>>)
    /\ WF_vars(RetainTimedout /\ UNCHANGED <<upsVars, ioVars, pxVars, httpVars>>)
    /\ WF_vars(Tick /\ UNCHANGED <<poolVars, upsVars, ioVars, pxVars, httpVars>>)

\* A pool with the default keepalive_requests (None, i.e. u64::MAX): a peer
\* may be returned and reused any number of times.
PoolFairStart ==
    /\ now = 0
    /\ cfg \in {with_timeouts(k, a, ProxyDur, UsizeMax) : k \in {1, MaxCap}, a \in {1, MaxCap}}
    /\ peer = [i \in PeerIds |-> NoPeer]
    /\ pend = {}
    /\ chan = <<>>
    /\ mon = {}
    /\ next_token = 1
    /\ res = [out |-> "none", before |-> 0]

PoolFairInit == PoolFairStart /\ UpsIdle /\ IoIdle /\ PxIdle /\ HttpIdle

SpecPoolFair == PoolFairInit /\ [][PoolNext]_vars /\ PoolFairness

(***************************************************************************)
(* A kept-alive client connection on which the client pipelines requests   *)
(* (variable rq): the reactor's Idle -> Request -> worker -> Response ->   *)
(* Idle cycle over one ClientContext and its Buffer                        *)
(***************************************************************************)

MaxRequests == 3           \* requests the client sends on the connection

\* Request k on the wire: a byte of the request line, a byte of the headers
\* and the byte that ends the request (the LF of the empty line; the
\* requests have no body).
RequestBytes(k) == <<<<"m", k>>, <<"h", k>>, <<"E", k>>>>

RECURSIVE PipelinedStream(_)
PipelinedStream(k) == IF k = 0 THEN <<>> ELSE PipelinedStream(k - 1) \o RequestBytes(k)

\* HttpRequest::parse on a request without body: the parse functions take
\* bytes with getc until the byte that ends the request and call
\* ClientContext::read (reset, then read) when the buffer is used up.
RECURSIVE request_parse(_)
request_parse(r) ==
    IF r.buf.rpos < r.buf.end
    THEN LET c == r.buf.data[r.buf.rpos + 1]
             got == [r EXCEPT !.buf.rpos = @ + 1, !.cur = Append(@, c)]
         IN  IF c[1] = "E" THEN [got EXCEPT !.rc = "OK"] ELSE request_parse(got)
    ELSE LET m == client_read(r)
         IN  IF m.rc = "OK" THEN request_parse(m.r) ELSE [m.r EXCEPT !.rc = m.rc]

\* k more bytes of the client reach the socket.
PipeArrive(k) ==
    /\ rq.rc = "pipe"
    /\ k \in 1..Len(rq.client)
    /\ rq' = [rq EXCEPT !.net = @ \o SubSeq(rq.client, 1, k),
                        !.client = SubSeq(@, k + 1, Len(@))]
    /\ UNCHANGED <<now, poolVars, upsVars, ioVars, pxVars, hc, rsp, rt>>

\* handle_io on a readable event: an Idle client becomes a new Request and
\* is parsed in the same call. OK: the context is reset and the request is
\* posted to the workers; AGAIN: the Request stays in the table.
PipeRead ==
    /\ rq.rc = "pipe"
    /\ rq.item \in {"Idle", "Request"}
    /\ rq.net # <<>>
    /\ LET r == request_parse([rq EXCEPT !.cur = IF rq.item = "Idle" THEN <<>> ELSE @])
       IN  rq' = IF r.rc = "OK"
                 THEN [r EXCEPT !.rc = "pipe", !.item = "Worker", !.buf = EmptyBuffer,
                                !.parsed = Append(@, r.cur), !.cur = <<>>]
                 ELSE [r EXCEPT !.rc = "pipe", !.item = "Request"]
    /\ UNCHANGED <<now, poolVars, upsVars, ioVars, pxVars, hc, rsp, rt>>

\* The worker's response is flushed to the client: the request is answered,
\* the socket is registered for reading again and the client, its buffer
\* reset, is Idle.
PipeRespond ==
    /\ rq.rc = "pipe"
    /\ rq.item = "Worker"
    /\ rq' = [rq EXCEPT !.item = "Idle", !.buf = EmptyBuffer, !.answered = @ + 1]
    /\ UNCHANGED <<now, poolVars, upsVars, ioVars, pxVars, hc, rsp, rt>>

\* An accepted client that will send its requests back to back.
PipeStart ==
    rq = [rc |-> "pipe", item |-> "Idle", client |-> PipelinedStream(MaxRequests),
          net |-> <<>>, fin |-> FALSE, buf |-> EmptyBuffer, cur |-> <<>>,
          parsed |-> <<>>, answered |-> 0]

PipeInit == PipeStart /\ now = 0 /\ PoolUnused /\ UpsIdle /\ IoIdle /\ PxIdle /\ hc = NoHttp /\ rsp = NoResponse
        /\ rt = NoRouting

PipeNext ==
    \/ \E k \in 1..(3 * MaxRequests) : PipeArrive(k)
    \/ PipeRead
    \/ PipeRespond

SpecPipeline == PipeInit /\ [][PipeNext]_vars

(***************************************************************************)
(* The header parser byte by byte (variable rq): the same header block     *)
(* delivered in one piece or split over several readable events            *)
(***************************************************************************)

MaxLines == 2              \* header lines of a request

\* One header line "k:v\r\n", and header blocks: lines and the empty line,
\* and a block whose line ends in a bare LF.
HeaderLine == <<"k", ":", "v", "CR", "LF">>

RECURSIVE HeaderLines(_)
HeaderLines(n) == IF n = 0 THEN <<>> ELSE HeaderLine \o HeaderLines(n - 1)

HeaderBlocks ==
    {HeaderLines(n) \o <<"CR", "LF">> : n \in 1..MaxLines}
        \cup {<<"k", ":", "v", "LF", "CR", "LF">>}

\* The loop of parse_headers; last and last_crlf are its local variables,
\* key, val and the header map are fields of the request.
RECURSIVE headers_loop(_, _, _)
headers_loop(r, last, last_crlf) ==
    IF r.buf.rpos < r.buf.end
    THEN LET c == r.buf.data[r.buf.rpos + 1]
             g == [r EXCEPT !.buf.rpos = @ + 1]
         IN  CASE c = "LF" ->
                    IF last # "CR" THEN [g EXCEPT !.rc = "throw"]
                    ELSE IF last_crlf THEN [g EXCEPT !.state = rq_st_headers_end, !.rc = "OK"]
                    ELSE headers_loop(g, "LF", last_crlf)
               [] c = "CR" ->
                    IF last = "LF" THEN headers_loop(g, "CR", TRUE)
                    ELSE IF g.key.some /\ g.val.some
                    THEN headers_loop([g EXCEPT !.headers = Append(@, <<g.key.v, g.val.v>>),
                                                !.key = SomeVal(<<>>), !.val = NoVal],
                                      "CR", last_crlf)
                    ELSE [g EXCEPT !.rc = "throw"]
               [] c = ":" ->
                    headers_loop(IF g.val.some THEN [g EXCEPT !.val.v = Append(@, c)]
                                 ELSE [g EXCEPT !.val = SomeVal(<<>>)],
                                 last, last_crlf)
               [] OTHER ->
                    headers_loop(IF g.val.some THEN [g EXCEPT !.val.v = Append(@, c)]
                                 ELSE IF g.key.some THEN [g EXCEPT !.key.v = Append(@, c)]
                                 ELSE g,
                                 c, last_crlf)
    ELSE LET m == client_read(r)
         IN  CASE m.rc = "OK" -> headers_loop(m.r, last, last_crlf)
               [] m.rc = "AGAIN" -> [m.r EXCEPT !.rc = "AGAIN"]
               [] OTHER -> [m.r EXCEPT !.rc = "fatal"]

\* HttpRequest::parse_headers, entered or re-entered: the locals start at
\* 0u8 and false.
parse_headers_bytes(r) ==
    IF r.state > rq_st_headers THEN [r EXCEPT !.rc = "OK"]
    ELSE headers_loop([r EXCEPT !.state = rq_st_headers], "NUL", FALSE)

\* The request after its request line: HttpRequest::new and parse_args leave
\* key = Some(empty) and val = None.
AfterRequestLine(block, net) ==
    [rc |-> "AGAIN", state |-> rq_st_protocol_end, block |-> block,
     client |-> SubSeq(block, Len(net) + 1, Len(block)), net |-> net, fin |-> FALSE,
     buf |-> EmptyBuffer, key |-> SomeVal(<<>>), val |-> NoVal, headers |-> <<>>]

\* What the parse of a request yields.
Outcome(r) == [rc |-> r.rc, state |-> r.state, headers |-> r.headers]

\* The block parsed with all of its bytes in the socket.
Unsplit(block) == Outcome(parse_headers_bytes(AfterRequestLine(block, block)))

\* k more bytes of the client reach the socket.
HeadersArrive(k) ==
    /\ rq.rc = "AGAIN"
    /\ rq.state < rq_st_headers_end
    /\ k \in 1..Len(rq.client)
    /\ rq' = [rq EXCEPT !.net = @ \o SubSeq(rq.client, 1, k),
                        !.client = SubSeq(@, k + 1, Len(@))]
    /\ UNCHANGED <<now, poolVars, upsVars, ioVars, pxVars, hc, rsp, rt>>

\* handle_io on a readable event of the Request item.
HeadersParse ==
    /\ rq.rc = "AGAIN"
    /\ rq.state < rq_st_headers_end
    /\ rq.net # <<>>
    /\ rq' = parse_headers_bytes(rq)
    /\ UNCHANGED <<now, poolVars, upsVars, ioVars, pxVars, hc, rsp, rt>>

HeadersStart == \E block \in HeaderBlocks : rq = AfterRequestLine(block, <<>>)

HeadersInit == HeadersStart /\ now = 0 /\ PoolUnused /\ UpsIdle /\ IoIdle /\ PxIdle /\ hc = NoHttp /\ rsp = NoResponse
        /\ rt = NoRouting

HeadersNext ==
    \/ \E k \in 1..(5 * MaxLines + 2) : HeadersArrive(k)
    \/ HeadersParse

SpecHeaders == HeadersInit /\ [][HeadersNext]_vars

(***************************************************************************)
(* The monitor thread's poll events, with the last handled event kept for  *)
(* observation (variable rt)                                               *)
(***************************************************************************)

\* What mio reports for a registered idle socket: the peer closed its side,
\* a socket error, or the socket became readable (stray data).
PollEvents == {"read_closed", "error", "readable"}

\* No event has been handled yet.
NoEvent == [pc |-> "event", ev |-> "none", w |-> [id |-> 0, token |-> 0, exp |-> NoExp, pool |-> FALSE]]

\* The filter_map over the monitor's set for one peer that has an event.
MonitorPoll(w, ev) ==
    /\ MonitorEvent(w, ev)
    /\ rt' = [pc |-> "event", ev |-> ev, w |-> w]
    /\ UNCHANGED <<upsVars, ioVars, pxVars, hc, rq, rsp>>

MonitorInit == PoolStart /\ UpsIdle /\ IoIdle /\ PxIdle /\ hc = NoHttp /\ rq = NoRequest
        /\ rsp = NoResponse /\ rt = NoEvent

MonitorNext ==
    \/ ConnectRejected /\ UNCHANGED <<upsVars, ioVars, pxVars, httpVars>>
    \/ ConnectReuse(cfg.timeout) /\ UNCHANGED <<upsVars, ioVars, pxVars, httpVars>>
    \/ \E ok \in BOOLEAN : ConnectNew(cfg.timeout, ok) /\ UNCHANGED <<upsVars, ioVars, pxVars, httpVars>>
    \/ \E i \in PeerIds : PeerDrop(i) /\ UNCHANGED <<upsVars, ioVars, pxVars, httpVars>>
    \/ \E i \in PeerIds : PeerRelease(i) /\ UNCHANGED <<upsVars, ioVars, pxVars, httpVars>>
    \/ \E w \in pend : SendAdd(w) /\ UNCHANGED <<upsVars, ioVars, pxVars, httpVars>>
    \/ \E i \in PeerIds : SocketError(i) /\ UNCHANGED <<upsVars, ioVars, pxVars, httpVars>>
    \/ Tick /\ UNCHANGED <<poolVars, upsVars, ioVars, pxVars, httpVars>>
    \/ MonitorRecv /\ UNCHANGED <<upsVars, ioVars, pxVars, httpVars>>
    \/ \E w \in mon, ev \in PollEvents : MonitorPoll(w, ev)
    \/ RetainTimedout /\ UNCHANGED <<upsVars, ioVars, pxVars, httpVars>>

SpecMonitor == MonitorInit /\ [][MonitorNext]_vars

(***************************************************************************)
(* Upstream::connect called by several threads at once (variables ups and  *)
(* avail): each pass of the attempt loop is one step, the balancer's state *)
(* is shared                                                               *)
(***************************************************************************)
MaxCallers == 2      \* threads inside Upstream::connect

Callers == 1..MaxCallers

Balancers == {"round_robin", "least_conn"}

\* BalanceLeastConn::balance: the first address, in the map's order, whose
\* pool has the strictly smallest active().
least_conn_balance(S, act) ==
    CHOOSE a \in S : \A b \in S : act[a] < act[b] \/ (act[a] = act[b] /\ a <= b)

\* self.balancer.balance(servers[i].iter()).
balancer_balance(u) ==
    IF u.balancer = "round_robin" THEN balance(u.primary, u.index)
    ELSE least_conn_balance(u.primary, u.act)

\* A caller that has not entered connect.
NoCall == [pc |-> "out", left |-> 0, tried |-> {}, out |-> "none", peer |-> 0]

\* The userdata clones of self.active alive in other threads: one per call
\* in progress and one per peer handed out.
Userdata(u) == Cardinality({c \in Callers : u.call[c].pc = "loop" \/ u.call[c].peer # 0})

\* Upstream::connect up to the attempt loop: the max_active test (this call's
\* clone is counted), then servers[0].len() passes ahead.
CallEnter(c) ==
    /\ ups.call[c].pc = "out"
    /\ ups.call[c].out = "none"
    /\ IF ups_active([ups EXCEPT !.count = Userdata(ups)]) = ups.max_active
       THEN ups' = [ups EXCEPT !.call[c].out = "max_active"]
       ELSE ups' = [ups EXCEPT !.call[c] = [NoCall EXCEPT !.pc = "loop",
                                                          !.left = Cardinality(ups.primary)]]
    /\ UNCHANGED avail

\* One pass of the attempt loop: balance, then pool.connect on the address;
\* a peer ends the call, a failure uses up the pass.
CallAttempt(c) ==
    /\ ups.call[c].pc = "loop"
    /\ ups.call[c].left > 0
    /\ LET addr == balancer_balance(ups)
           index == IF ups.balancer = "round_robin"
                    THEN (ups.index + 1) % Cardinality(ups.primary) ELSE ups.index
       IN  IF addr \in avail
           THEN ups' = [ups EXCEPT !.index = index,
                                   !.act[addr] = @ + 1,
                                   !.call[c] = [@ EXCEPT !.pc = "out", !.out = "ok",
                                                         !.peer = addr]]
           ELSE ups' = [ups EXCEPT !.index = index,
                                   !.call[c] = [@ EXCEPT !.left = @ - 1,
                                                         !.tried = @ \cup {addr}]]
    /\ UNCHANGED avail

\* The loop is exhausted: throw!("Bad gateway").
CallGiveUp(c) ==
    /\ ups.call[c].pc = "loop"
    /\ ups.call[c].left = 0
    /\ ups' = [ups EXCEPT !.call[c] = [@ EXCEPT !.pc = "out", !.out = "Bad gateway"]]
    /\ UNCHANGED avail

\* The caller drops the peer it was given (released, so it closes).
CallPeerDrop(c) ==
    /\ ups.call[c].peer # 0
    /\ ups' = [ups EXCEPT !.act[ups.call[c].peer] = @ - 1, !.call[c].peer = 0]
    /\ UNCHANGED avail

BalanceStart ==
    /\ \E P \in SUBSET Addrs \ {{}}, b \in Balancers, m \in {MaxCallers, MaxCallers + 1} :
        ups = [NoUpstream EXCEPT !.primary = P, !.max_active = m] @@
              [balancer |-> b, act |-> [a \in Addrs |-> 0], call |-> [c \in Callers |-> NoCall]]
    /\ avail \in SUBSET ups.primary

BalanceInit == BalanceStart /\ PoolIdle /\ IoIdle /\ PxIdle /\ HttpIdle

BalanceNext ==
    \/ \E c \in Callers : CallEnter(c) /\ UNCHANGED <<now, poolVars, ioVars, pxVars, httpVars>>
    \/ \E c \in Callers : CallAttempt(c) /\ UNCHANGED <<now, poolVars, ioVars, pxVars, httpVars>>
    \/ \E c \in Callers : CallGiveUp(c) /\ UNCHANGED <<now, poolVars, ioVars, pxVars, httpVars>>
    \/ \E c \in Callers : CallPeerDrop(c) /\ UNCHANGED <<now, poolVars, ioVars, pxVars, httpVars>>

SpecBalance == BalanceInit /\ [][BalanceNext]_vars

(***************************************************************************)
(* Failover of the proxy flush handler for one proxied request (variables  *)
(* px and up): the connect / proxy() loop with the pool left out           *)
(***************************************************************************)
MaxAttempts == 3     \* connect-and-send attempts counted (the count stops there)

\* The response enters the handler chain with no proxy context.
FailoverIdle(timed) == [pc |-> "connect", state |-> st_connecting, attempts |-> 0,
                        status |-> 0, out |-> "none", timed |-> timed]

\* The handler's loop with no context: connect fails and bad_gateway answers,
\* or it yields a peer, HttpProxyContext::new, and the first proxy() call
\* answers WRITE_MORE.
FailoverConnect(ok) ==
    /\ px.pc = "connect"
    /\ ok => up
    /\ px' = IF ok
             THEN [px EXCEPT !.pc = "wait", !.state = st_connected,
                             !.attempts = Min(@ + 1, MaxAttempts)]
             ELSE [px EXCEPT !.pc = "done", !.status = 502, !.out = "completed"]
    /\ UNCHANGED up

\* An event on the peer's token: the handler takes the context and calls
\* proxy(). More to do keeps the context; a parsed response ends the handler;
\* Err below st_protocol_end releases the peer and loops to connect, any
\* other Err is returned.
FailoverFlush(snd, rd) ==
    /\ px.pc = "wait"
    /\ LET err(st) == IF st < RetryLimit
                      THEN [px EXCEPT !.pc = "connect", !.state = st]
                      ELSE [px EXCEPT !.pc = "done", !.state = st, !.out = "error"]
       IN  IF px.state < st_request_sent /\ snd # "OK"
           THEN /\ rd.stop = st_parsed /\ rd.len /\ ~rd.close /\ rd.proto = "HTTP/1.1"
                /\ px' = IF snd = "AGAIN" THEN [px EXCEPT !.state = st_request_prepared]
                         ELSE err(st_request_prepared)
           ELSE /\ snd = "OK"
                /\ px' = CASE rd.how = "AGAIN" -> [px EXCEPT !.state = rd.stop]
                           [] rd.how = "Err" -> err(rd.stop)
                           [] rd.how = "OK" ->
                                [px EXCEPT !.pc = "done", !.state = rd.stop, !.out = "completed",
                                           !.status = IF rd.len THEN 200 ELSE 502]
    /\ UNCHANGED up

\* The peer's deadline passes while the handler waits on it: 504.
FailoverPeerTimeout ==
    /\ px.pc = "wait"
    /\ px' = [px EXCEPT !.pc = "done", !.status = 504, !.out = "completed"]
    /\ UNCHANGED up

\* The listener's response_timeout, when set, comes: the reactor drops the
\* client with its response.
FailoverResponseTimeout ==
    /\ px.pc \in {"connect", "wait"}
    /\ px.timed
    /\ px' = [px EXCEPT !.pc = "done", !.out = "timedout"]
    /\ UNCHANGED up

FailoverStart == (\E timed \in BOOLEAN : px = FailoverIdle(timed)) /\ up \in BOOLEAN

FailoverInit == FailoverStart /\ now = 0 /\ PoolUnused /\ UpsIdle /\ IoIdle /\ HttpIdle

FailoverNext ==
    \/ \E ok \in BOOLEAN : FailoverConnect(ok) /\ UNCHANGED <<now, poolVars, upsVars, ioVars, httpVars>>
    \/ \E snd \in {"OK", "AGAIN", "Err"}, rd \in ReadOutcomes(px.state) :
            FailoverFlush(snd, rd) /\ UNCHANGED <<now, poolVars, upsVars, ioVars, httpVars>>
    \/ FailoverPeerTimeout /\ UNCHANGED <<now, poolVars, upsVars, ioVars, httpVars>>
    \/ FailoverResponseTimeout /\ UNCHANGED <<now, poolVars, upsVars, ioVars, httpVars>>

\* The poll hands the handler every event of a registered socket, and a set
\* response_timeout does come.
FailoverFairness ==
    /\ WF_vars(\E ok \in BOOLEAN : FailoverConnect(ok) /\ UNCHANGED <<now, poolVars, upsVars, ioVars, httpVars>>)
    /\ WF_vars(\E snd \in {"OK", "AGAIN", "Err"}, rd \in ReadOutcomes(px.state) :
            FailoverFlush(snd, rd) /\ UNCHANGED <<now, poolVars, upsVars, ioVars, httpVars>>)
    /\ WF_vars(FailoverResponseTimeout /\ UNCHANGED <<now, poolVars, upsVars, ioVars, httpVars>>)

SpecFailover == FailoverInit /\ [][FailoverNext]_vars /\ FailoverFairness

(***************************************************************************)
(* HttpResponse::flush_headers with header filters registered on the       *)
(* request (variable rsp): the two passes over the filter chain            *)
(***************************************************************************)
MaxFilters == 2      \* header filters registered for one request

\* What a header filter does with the response: only look at the headers, or
\* set or remove the Content-Length header (add_headers, clear_headers).
FilterKinds == {"observe", "set_length", "clear_length"}

\* The framing headers of the response: Content-Length (NoLen when absent)
\* and whether Transfer-Encoding: chunked is present.
NoFraming == [cl |-> NoLen, te |-> FALSE]

\* A response about to flush its headers, with the filters the handler
\* chain registered through add_header_filter.
FilteredResponse(protocol, status, len, filters) ==
    [done |-> FALSE, wire |-> <<>>, protocol |-> protocol, status |-> status,
     content_length |-> len, chunked |-> FALSE, hdr |-> NoFraming,
     header_filter |-> filters, registered |-> filters, seen |-> <<>>,
     headers_sent |-> FALSE]

\* h.handle(this) for the i-th filter on pass j: what it sees is recorded,
\* then it acts on the headers.
filter_handle(r, kind, i, j) ==
    LET saw == [r EXCEPT !.seen = Append(@, [filter |-> i, pass |-> j, framing |-> r.hdr])]
    IN  CASE kind = "set_length" -> [saw EXCEPT !.hdr.cl = 1]
          [] kind = "clear_length" -> [saw EXCEPT !.hdr.cl = NoLen]
          [] OTHER -> saw

RECURSIVE run_filters(_, _, _, _)
run_filters(r, taken, i, j) ==
    IF i > Len(taken) THEN r
    ELSE run_filters(filter_handle(r, taken[i], i, j), taken, i + 1, j)

\* The j == 1 block: Content-Length against Transfer-Encoding: chunked.
finalize_framing(r) ==
    IF r.status = NO_CONTENT
    THEN [r EXCEPT !.chunked = FALSE, !.content_length = NoLen, !.hdr = NoFraming]
    ELSE IF r.content_length # NoLen
    THEN [r EXCEPT !.chunked = FALSE, !.hdr = [cl |-> r.content_length, te |-> FALSE]]
    ELSE LET c == r.protocol = "HTTP/1.1"
         IN  [r EXCEPT !.chunked = c, !.hdr = [cl |-> NoLen, te |-> c]]

\* The j == 0 block after the filters: a Content-Length header set by a
\* filter becomes the response's length, a chunked header clears it.
adopt_headers(r) ==
    IF r.hdr.cl # NoLen THEN [r EXCEPT !.content_length = r.hdr.cl]
    ELSE IF r.hdr.te THEN [r EXCEPT !.content_length = NoLen]
    ELSE r

\* One pass of for j in 0..2: take(&mut header_filter) empties the list and
\* runs what it held.
filter_pass(r, j) ==
    LET f == IF j = 1 THEN finalize_framing(r) ELSE r
        ran == run_filters([f EXCEPT !.header_filter = <<>>], f.header_filter, 1, j)
    IN  IF j = 0 THEN adopt_headers(ran) ELSE ran

\* HttpResponse::flush_headers with filters: both passes, then the header
\* block (one token naming the framing) is serialized.
flush_headers_filtered(r) ==
    IF r.headers_sent THEN r
    ELSE LET f == filter_pass(filter_pass(r, 0), 1)
         IN  [f EXCEPT !.wire = Append(@, f.hdr), !.headers_sent = TRUE, !.done = TRUE]

FiltersFlush ==
    /\ ~rsp.done
    /\ rsp' = flush_headers_filtered(rsp)
    /\ UNCHANGED <<now, poolVars, upsVars, ioVars, pxVars, hc, rq, rt>>

FiltersStart ==
    \E protocol \in {"HTTP/1.0", "HTTP/1.1"}, status \in {HTTP_OK, NO_CONTENT},
       len \in {NoLen, 0, 2}, n \in 0..MaxFilters :
        \E filters \in [1..n -> FilterKinds] :
            rsp = FilteredResponse(protocol, status, len, filters)

FiltersInit ==
    FiltersStart /\ now = 0 /\ PoolUnused /\ UpsIdle /\ IoIdle /\ PxIdle
        /\ hc = NoHttp /\ rq = NoRequest /\ rt = NoRouting

FiltersNext == FiltersFlush

SpecFilters == FiltersInit /\ [][FiltersNext]_vars

(***************************************************************************)
(* HttpServerCore's route table behind its RwLock (variable rt): lookups   *)
(* of the server handler against add_route and remove_route                *)
(***************************************************************************)
MaxMutations == 2    \* add_route / remove_route calls in one behaviour
MaxLookups == 2      \* worker threads running the server handler

LookupIds == 1..MaxLookups
RoutePaths == {"/a", "/b"}
DefaultCtx == 0      \* Context::default(), before context.copy(&route)

\* The routes of one (addr, host) key: absent, or a set of <<pattern, context>>.
NoTable == [present |-> FALSE, routes |-> {}]

\* A handler thread outside the handler, and the writer outside a mutation.
NoLookup == [pc |-> "idle", snap |-> NoTable, found |-> {}]
NoWriter == [pc |-> "idle", op |-> "none", path |-> "/a", ctx |-> DefaultCtx]

\* routes.write() granted without regard to the read guards that are out.
WriteAcquire_unchecked(op, path, ctx) ==
    /\ rt.writer.pc = "idle"
    /\ rt.mutations < MaxMutations
    /\ rt' = [rt EXCEPT !.writer = [pc |-> "locked", op |-> op, path |-> path, ctx |-> ctx],
                        !.mutations = @ + 1]

\* routes.write(): granted when no guard of either kind is out.
WriteAcquire(op, path, ctx) ==
    /\ rt.writer.pc = "idle"
    /\ rt.mutations < MaxMutations
    /\ \A l \in LookupIds : rt.lookup[l].pc = "idle"
    /\ rt' = [rt EXCEPT !.writer = [pc |-> "locked", op |-> op, path |-> path, ctx |-> ctx],
                        !.mutations = @ + 1]

\* add_route under the write guard, one step at a time: entry(key).or_default(),
\* then upsert's add(path, method, Context::default()), then the closure's
\* context.copy(&route).
AddRouteStep ==
    /\ rt.writer.op = "add"
    /\ LET w == rt.writer
           others == {e \in rt.table.routes : e[1] # w.path}
       IN  CASE w.pc = "locked" ->
                    rt' = [rt EXCEPT !.table.present = TRUE, !.writer.pc = "entry"]
             [] w.pc = "entry" ->
                    rt' = [rt EXCEPT !.table.routes =
                                         IF \E e \in @ : e[1] = w.path THEN @
                                         ELSE @ \cup {<<w.path, DefaultCtx>>},
                                     !.writer.pc = "added"]
             [] w.pc = "added" ->
                    rt' = [rt EXCEPT !.table.routes = others \cup {<<w.path, w.ctx>>},
                                     !.writer.pc = "done"]
             [] OTHER -> FALSE

\* remove_route under the write guard: get_mut(&key), then the router's remove.
RemoveRouteStep ==
    /\ rt.writer.op = "remove"
    /\ rt.writer.pc = "locked"
    /\ rt' = [rt EXCEPT !.table.routes = IF rt.table.present
                                         THEN {e \in @ : e[1] # rt.writer.path} ELSE @,
                        !.writer.pc = "done"]

\* The write guard goes out of scope: the mutation is complete.
WriteRelease ==
    /\ rt.writer.pc = "done"
    /\ rt' = [rt EXCEPT !.writer = NoWriter, !.committed = rt.table]

\* The server handler's routes.read(): granted while no write guard is out;
\* guard.0 refers to the table.
ReadAcquire(l) ==
    /\ rt.lookup[l].pc = "idle"
    /\ rt.writer.pc = "idle"
    /\ rt' = [rt EXCEPT !.lookup[l] = [pc |-> "guard", snap |-> rt.table, found |-> {}]]

\* guard.0.get(&key) and the router's get for the request's uri: the result
\* refers to the route inside the table.
ReadGet(l, path) ==
    /\ rt.lookup[l].pc = "guard"
    /\ rt' = [rt EXCEPT !.lookup[l].pc = "found",
                        !.lookup[l].found = IF rt.table.present
                                            THEN {e \in rt.table.routes : e[1] = path} ELSE {}]

\* The handler returns (after the content handler ran): the read guard, a
\* temporary of the handler's body, is dropped.
ReadRelease(l) ==
    /\ rt.lookup[l].pc = "found"
    /\ rt' = [rt EXCEPT !.lookup[l] = NoLookup]

RoutesStart ==
    rt = [pc |-> "routes", table |-> NoTable, committed |-> NoTable, writer |-> NoWriter,
          mutations |-> 0, lookup |-> [l \in LookupIds |-> NoLookup]]

RoutesInit ==
    RoutesStart /\ now = 0 /\ PoolUnused /\ UpsIdle /\ IoIdle /\ PxIdle
        /\ hc = NoHttp /\ rq = NoRequest /\ rsp = NoResponse

RoutesNext ==
    \/ \E op \in {"add", "remove"}, path \in RoutePaths, ctx \in Contexts :
            WriteAcquire(op, path, ctx) /\ UNCHANGED <<now, poolVars, upsVars, ioVars, pxVars, hc, rq, rsp>>
    \/ AddRouteStep /\ UNCHANGED <<now, poolVars, upsVars, ioVars, pxVars, hc, rq, rsp>>
    \/ RemoveRouteStep /\ UNCHANGED <<now, poolVars, upsVars, ioVars, pxVars, hc, rq, rsp>>
    \/ WriteRelease /\ UNCHANGED <<now, poolVars, upsVars, ioVars, pxVars, hc, rq, rsp>>
    \/ \E l \in LookupIds : ReadAcquire(l) /\ UNCHANGED <<now, poolVars, upsVars, ioVars, pxVars, hc, rq, rsp>>
    \/ \E l \in LookupIds, path \in RoutePaths :
            ReadGet(l, path) /\ UNCHANGED <<now, poolVars, upsVars, ioVars, pxVars, hc, rq, rsp>>
    \/ \E l \in LookupIds : ReadRelease(l) /\ UNCHANGED <<now, poolVars, upsVars, ioVars, pxVars, hc, rq, rsp>>

SpecRoutes == RoutesInit /\ [][RoutesNext]_vars

(***************************************************************************)
(* The Buffer of a ClientContext under the operations its callers make     *)
(* (variable rq): the cursors rpos, wpos, end and the Vec behind them      *)
(***************************************************************************)
MaxData == 6         \* longest Vec an extend may produce

\* Vec's growth when need exceeds the capacity: at least double.
vec_grow(cap, need) == IF need <= cap THEN cap ELSE IF 2 * cap < need THEN need ELSE 2 * cap

\* Buffer::getc at a position that is not checked against end.
BufGetc_unguarded ==
    /\ rq.buf.rpos < Len(rq.buf.data)
    /\ rq' = [rq EXCEPT !.buf.rpos = @ + 1, !.op = "getc"]

\* while !client.buf.end() { client.buf.getc() }: one byte.
BufGetc ==
    /\ rq.buf.rpos < rq.buf.end
    /\ rq' = [rq EXCEPT !.buf.rpos = @ + 1, !.op = "getc"]

\* ClientContext::reset -> Buffer::reset (the Vec keeps its capacity).
BufReset ==
    /\ rq' = [rq EXCEPT !.buf = EmptyBuffer, !.op = "reset"]

\* ClientContext::read: Buffer::reset, then Buffer::read of the n bytes the
\* socket holds.
BufRead(n) ==
    /\ LET rd == buffer_read(EmptyBuffer, [i \in 1..n |-> "x"])
       IN  rq' = [rq EXCEPT !.buf = rd.buf, !.cap = vec_grow(@, Len(rd.buf.data)),
                            !.op = "read"]

\* Buffer::tail.
BufTail ==
    /\ rq' = [rq EXCEPT !.buf.rpos = rq.buf.end, !.op = "tail"]

\* Buffer::chunk(len).
BufChunk(len) ==
    /\ rq' = [rq EXCEPT !.buf.rpos = Min(rq.buf.rpos + len, rq.buf.end), !.op = "chunk"]

\* ClientContext::write -> Buffer::extend with n bytes.
BufExtend(n) ==
    /\ Len(rq.buf.data) + n <= MaxData
    /\ LET b == buffer_extend(rq.buf, [i \in 1..n |-> "y"])
       IN  rq' = [rq EXCEPT !.buf = b, !.cap = vec_grow(@, Len(b.data)), !.op = "extend"]

\* ClientContext::flush -> Buffer::write to a socket that takes room bytes.
BufWrite(room) ==
    /\ rq' = [rq EXCEPT !.buf = buffer_write(rq.buf, room).buf, !.op = "write"]

\* Buffer::default: Vec::with_capacity(4096).
BufferStart == rq = [rc |-> "buffer", buf |-> EmptyBuffer, cap |-> BufSize, op |-> "new"]

BufferInit ==
    BufferStart /\ now = 0 /\ PoolUnused /\ UpsIdle /\ IoIdle /\ PxIdle
        /\ hc = NoHttp /\ rsp = NoResponse /\ rt = NoRouting

BufferNext ==
    \/ BufGetc /\ UNCHANGED <<now, poolVars, upsVars, ioVars, pxVars, hc, rsp, rt>>
    \/ BufReset /\ UNCHANGED <<now, poolVars, upsVars, ioVars, pxVars, hc, rsp, rt>>
    \/ \E n \in 0..BufSize : BufRead(n) /\ UNCHANGED <<now, poolVars, upsVars, ioVars, pxVars, hc, rsp, rt>>
    \/ BufTail /\ UNCHANGED <<now, poolVars, upsVars, ioVars, pxVars, hc, rsp, rt>>
    \/ \E len \in 0..BufSize : BufChunk(len) /\ UNCHANGED <<now, poolVars, upsVars, ioVars, pxVars, hc, rsp, rt>>
    \/ \E n \in 1..2 : BufExtend(n) /\ UNCHANGED <<now, poolVars, upsVars, ioVars, pxVars, hc, rsp, rt>>
    \/ \E room \in 0..MaxData : BufWrite(room) /\ UNCHANGED <<now, poolVars, upsVars, ioVars, pxVars, hc, rsp, rt>>

SpecBuffer == BufferInit /\ [][BufferNext]_vars

(***************************************************************************)
(* RegexRouter (variable rt): the vector of patterns under add and remove, *)
(* and get                                                                 *)
(***************************************************************************)

\* Patterns over the bytes a, b and the wildcard ".", and request uris.
RePatterns == {<<"a">>, <<".">>, <<"a", "b">>, <<".", "b">>}
ReUris == {<<"a">>, <<"b">>, <<"a", "b">>, <<"b", "b">>}
ReMethods == {"GET", "POST", "*"}

\* RegexRoute::new; born is the number of the add call that made the route.
RegexRoute_new(pattern, born) ==
    [pattern |-> pattern, context |-> [m \in ReMethods |-> NoContext], born |-> born]

\* RegexRoute::matches: the (unanchored) pattern is found somewhere in path.
re_matches(pattern, path) ==
    \E k \in 0..(Len(path) - Len(pattern)) :
        \A i \in 1..Len(pattern) : pattern[i] = "." \/ pattern[i] = path[k + i]

\* Vec::insert(i, route), with the model's indices starting at 1.
vec_insert(routes, i, route) ==
    SubSeq(routes, 1, i - 1) \o <<route>> \o SubSeq(routes, i, Len(routes))

\* add that puts a pattern before the first one that is not longer.
RECURSIVE re_add_before_ties(_, _, _, _, _, _)
re_add_before_ties(routes, i, pattern, method, context, born) ==
    IF i > Len(routes)
    THEN Append(routes, or_insert(RegexRoute_new(pattern, born), method, context))
    ELSE IF routes[i].pattern = pattern
    THEN [routes EXCEPT ![i] = or_insert(@, method, context)]
    ELSE IF Len(pattern) >= Len(routes[i].pattern)
    THEN vec_insert(routes, i, or_insert(RegexRoute_new(pattern, born), method, context))
    ELSE re_add_before_ties(routes, i + 1, pattern, method, context, born)

\* RegexRouter::add from index i on: an equal pattern gets the method's entry
\* (an occupied one is kept), a pattern longer than routes[i] is inserted at
\* i, otherwise the pattern is pushed at the end.
RECURSIVE re_add(_, _, _, _, _, _)
re_add(routes, i, pattern, method, context, born) ==
    IF i > Len(routes)
    THEN Append(routes, or_insert(RegexRoute_new(pattern, born), method, context))
    ELSE IF routes[i].pattern = pattern
    THEN [routes EXCEPT ![i] = or_insert(@, method, context)]
    ELSE IF Len(pattern) > Len(routes[i].pattern)
    THEN vec_insert(routes, i, or_insert(RegexRoute_new(pattern, born), method, context))
    ELSE re_add(routes, i + 1, pattern, method, context, born)

\* RegexRouter::remove: the method's entry goes, and the route with it when
\* no entry is left.
re_remove(routes, pattern, method) ==
    IF \E i \in 1..Len(routes) : routes[i].pattern = pattern
    THEN LET i == CHOOSE i \in 1..Len(routes) :
                    /\ routes[i].pattern = pattern
                    /\ \A j \in 1..(i - 1) : routes[j].pattern # pattern
             route == [routes[i] EXCEPT !.context[method] = NoContext]
         IN  IF \A m \in ReMethods : route.context[m] = NoContext
             THEN vec_remove(routes, i)
             ELSE [routes EXCEPT ![i] = route]
    ELSE routes

\* RegexRouter::get from index i on: the first route whose pattern matches
\* decides, by the request's method or by "*"; NoContext for None.
RECURSIVE re_get(_, _, _, _)
re_get(routes, i, path, method) ==
    IF i > Len(routes) THEN NoContext
    ELSE IF re_matches(routes[i].pattern, path)
    THEN IF routes[i].context[method] # NoContext THEN routes[i].context[method]
         ELSE routes[i].context["*"]
    ELSE re_get(routes, i + 1, path, method)

RegexAdd ==
    /\ rt.calls < MaxEdits
    /\ \E pattern \in RePatterns, method \in Methods, context \in Contexts :
          rt' = [rt EXCEPT !.routes = re_add(rt.routes, 1, pattern, method, context, rt.calls + 1),
                           !.op = "add", !.calls = @ + 1]
    /\ UNCHANGED <<now, poolVars, upsVars, ioVars, pxVars, hc, rq, rsp>>

RegexRemove ==
    /\ rt.calls < MaxEdits
    /\ \E pattern \in RePatterns, method \in Methods :
          rt' = [rt EXCEPT !.routes = re_remove(rt.routes, pattern, method),
                           !.op = "remove", !.calls = @ + 1]
    /\ UNCHANGED <<now, poolVars, upsVars, ioVars, pxVars, hc, rq, rsp>>

\* RegexRouter::new(): no routes.
RegexStart == rt = [pc |-> "regex", routes |-> <<>>, op |-> "new", calls |-> 0]

RegexInit ==
    RegexStart /\ now = 0 /\ PoolUnused /\ UpsIdle /\ IoIdle /\ PxIdle
        /\ hc = NoHttp /\ rq = NoRequest /\ rsp = NoResponse

RegexNext == RegexAdd \/ RegexRemove

SpecRegex == RegexInit /\ [][RegexNext]_vars

(***************************************************************************)
(* The reactor's listener table (variable rt): add_listener and            *)
(* remove_listener on the owner's thread, the 'updated' flag, and the      *)
(* reactor's update_servers and accept branch                              *)
(***************************************************************************)
MaxListeners == 1    \* addresses listened on
MaxChanges == 2      \* add_listener / remove_listener calls in one behaviour
MaxFlips == 2        \* times an address becomes bindable or stops being so

Listen == 1..MaxListeners

\* The table's entry for an address: none, Server::Invalid, Server::Valid,
\* Server::Removed(OneOf::Valid) or Server::Removed(OneOf::Invalid).
ServerStates == {"none", "Invalid", "Valid", "Removed(Valid)", "Removed(Invalid)"}

\* add_listener's effect on the entry of its address.
add_listener(s) ==
    CASE s = "none" -> "Invalid"
      [] s = "Removed(Valid)" -> "Valid"
      [] s = "Removed(Invalid)" -> "Invalid"
      [] OTHER -> s

\* remove_listener's effect on the entry of its address.
remove_listener(s) ==
    CASE s = "Valid" -> "Removed(Valid)"
      [] s = "Invalid" -> "Removed(Invalid)"
      [] OTHER -> s

\* update_servers: Removed entries leave the table, Invalid entries become
\* Valid when create_listener succeeds and stay Invalid when it fails.
update_servers(servers, bindable) ==
    [a \in Listen |->
        CASE servers[a] \in {"Removed(Valid)", "Removed(Invalid)"} -> "none"
          [] servers[a] = "Invalid" -> IF bindable[a] THEN "Valid" ELSE "Invalid"
          [] OTHER -> servers[a]]

\* self.servers.lock() in add_listener / remove_listener.
CallerLock(op, a) ==
    /\ rt.caller.pc = "idle"
    /\ rt.lock = "free"
    /\ rt.changes < MaxChanges
    /\ rt' = [rt EXCEPT !.lock = "caller", !.caller = [pc |-> "locked", op |-> op, addr |-> a],
                        !.changes = @ + 1]

\* The table is changed under the lock.
CallerChange ==
    /\ rt.caller.pc = "locked"
    /\ LET a == rt.caller.addr
       IN  rt' = [rt EXCEPT !.servers[a] = IF rt.caller.op = "add" THEN add_listener(@)
                                          ELSE remove_listener(@),
                            !.pending = @ \cup {a},
                            !.caller.pc = "changed"]

\* self.updated.store(true, Ordering::Release), still under the lock.
CallerStore ==
    /\ rt.caller.pc = "changed"
    /\ rt' = [rt EXCEPT !.updated = TRUE, !.caller.pc = "stored"]

\* The call returns and the guard is dropped.
CallerUnlock ==
    /\ rt.caller.pc = "stored"
    /\ rt' = [rt EXCEPT !.lock = "free", !.caller.pc = "idle"]

\* Top of the reactor loop: updated.load(Ordering::Acquire).
ReactorLoad ==
    /\ rt.reactor = "top"
    /\ rt' = [rt EXCEPT !.reactor = IF rt.updated THEN "want" ELSE "poll"]

\* servers.lock() in the reactor.
ReactorLock ==
    /\ rt.reactor = "want"
    /\ rt.lock = "free"
    /\ rt' = [rt EXCEPT !.lock = "reactor", !.reactor = "update"]

\* update_servers that gives the lock up before the flag is cleared.
ReactorUpdate_unlocked ==
    /\ rt.reactor = "update"
    /\ rt' = [rt EXCEPT !.servers = update_servers(rt.servers, rt.bindable),
                        !.pending = {}, !.lock = "free", !.reactor = "clear"]

\* IO::update_servers on the locked table.
ReactorUpdate ==
    /\ rt.reactor = "update"
    /\ rt' = [rt EXCEPT !.servers = update_servers(rt.servers, rt.bindable),
                        !.pending = {}, !.reactor = "clear"]

\* updated.store(false, Ordering::Release); the guard is dropped at the end
\* of the if let.
ReactorStore ==
    /\ rt.reactor = "clear"
    /\ rt' = [rt EXCEPT !.updated = FALSE, !.reactor = "poll",
                        !.lock = IF @ = "reactor" THEN "free" ELSE @]

\* poll.poll returns without an event of a listener.
ReactorPoll ==
    /\ rt.reactor = "poll"
    /\ rt' = [rt EXCEPT !.reactor = "top"]

\* poll.poll returns an event of listener a: the accept branch, under the
\* lock. A Valid listener accepts, or fails and is created again, becoming
\* Invalid when that fails too; an entry that is not Valid is dropped.
ReactorAccept(a, accepted) ==
    /\ rt.reactor = "poll"
    /\ rt.lock = "free"
    /\ rt.servers[a] \in {"Valid", "Removed(Valid)"}
    /\ rt' = [rt EXCEPT !.reactor = "top",
                        !.servers[a] = IF @ # "Valid" THEN "none"
                                       ELSE IF accepted \/ rt.bindable[a] THEN "Valid"
                                       ELSE "Invalid"]

\* The environment: an address stops or starts being bindable.
BindFlip(a) ==
    /\ rt.flips < MaxFlips
    /\ rt' = [rt EXCEPT !.bindable[a] = ~@, !.flips = @ + 1]

\* IO::new: an empty table, updated = true.
ListenersStart ==
    rt = [pc |-> "listeners", servers |-> [a \in Listen |-> "none"], updated |-> TRUE,
          lock |-> "free", reactor |-> "top", pending |-> {},
          caller |-> [pc |-> "idle", op |-> "add", addr |-> 1],
          bindable |-> [a \in Listen |-> TRUE], changes |-> 0, flips |-> 0]

ListenersInit ==
    ListenersStart /\ now = 0 /\ PoolUnused /\ UpsIdle /\ IoIdle /\ PxIdle
        /\ hc = NoHttp /\ rq = NoRequest /\ rsp = NoResponse

ListenersNext ==
    \/ \E op \in {"add", "remove"}, a \in Listen :
            CallerLock(op, a) /\ UNCHANGED <<now, poolVars, upsVars, ioVars, pxVars, hc, rq, rsp>>
    \/ CallerChange /\ UNCHANGED <<now, poolVars, upsVars, ioVars, pxVars, hc, rq, rsp>>
    \/ CallerStore /\ UNCHANGED <<now, poolVars, upsVars, ioVars, pxVars, hc, rq, rsp>>
    \/ CallerUnlock /\ UNCHANGED <<now, poolVars, upsVars, ioVars, pxVars, hc, rq, rsp>>
    \/ ReactorLoad /\ UNCHANGED <<now, poolVars, upsVars, ioVars, pxVars, hc, rq, rsp>>
    \/ ReactorLock /\ UNCHANGED <<now, poolVars, upsVars, ioVars, pxVars, hc, rq, rsp>>
    \/ ReactorUpdate /\ UNCHANGED <<now, poolVars, upsVars, ioVars, pxVars, hc, rq, rsp>>
    \/ ReactorStore /\ UNCHANGED <<now, poolVars, upsVars, ioVars, pxVars, hc, rq, rsp>>
    \/ ReactorPoll /\ UNCHANGED <<now, poolVars, upsVars, ioVars, pxVars, hc, rq, rsp>>
    \/ \E a \in Listen, accepted \in BOOLEAN :
            ReactorAccept(a, accepted) /\ UNCHANGED <<now, poolVars, upsVars, ioVars, pxVars, hc, rq, rsp>>
    \/ \E a \in Listen : BindFlip(a) /\ UNCHANGED <<now, poolVars, upsVars, ioVars, pxVars, hc, rq, rsp>>

\* The reactor thread runs (its poll has a timeout of at most a second) and
\* a call that took the lock returns.
ListenersFairness ==
    /\ WF_vars(CallerChange /\ UNCHANGED <<now, poolVars, upsVars, ioVars, pxVars, hc, rq, rsp>>)
    /\ WF_vars(CallerStore /\ UNCHANGED <<now, poolVars, upsVars, ioVars, pxVars, hc, rq, rsp>>)
    /\ WF_vars(CallerUnlock /\ UNCHANGED <<now, poolVars, upsVars, ioVars, pxVars, hc, rq, rsp>>)
    /\ WF_vars(ReactorLoad /\ UNCHANGED <<now, poolVars, upsVars, ioVars, pxVars, hc, rq, rsp>>)
    /\ WF_vars(ReactorLock /\ UNCHANGED <<now, poolVars, upsVars, ioVars, pxVars, hc, rq, rsp>>)
    /\ WF_vars(ReactorUpdate /\ UNCHANGED <<now, poolVars, upsVars, ioVars, pxVars, hc, rq, rsp>>)
    /\ WF_vars(ReactorStore /\ UNCHANGED <<now, poolVars, upsVars, ioVars, pxVars, hc, rq, rsp>>)
    /\ WF_vars(ReactorPoll /\ UNCHANGED <<now, poolVars, upsVars, ioVars, pxVars, hc, rq, rsp>>)

SpecListeners == ListenersInit /\ [][ListenersNext]_vars /\ ListenersFairness

(***************************************************************************)
(* Chunks of a response whose request carries body filters (variable rsp)  *)
(***************************************************************************)

\* Body filters (BodyFilterHandler, Option<Vec<u8>> -> Option<Vec<u8>>):
\* body_log returns the body as it is, strip removes the line feeds, pad
\* appends a byte.
BodyFilterKinds == {"body_log", "strip", "pad"}

\* h.handle(body) of one body filter.
body_filter_handle(kind, body) ==
    IF ~body.some THEN body
    ELSE CASE kind = "strip" -> SomeVal(SelectSeq(body.v, LAMBDA b : b # "LF"))
           [] kind = "pad" -> SomeVal(Append(body.v, "a"))
           [] OTHER -> body

\* body_filter.iter().for_each(|h| body = h.handle(body.take()))
RECURSIVE run_body_filters(_, _)
run_body_filters(filters, body) ==
    IF filters = <<>> THEN body
    ELSE run_body_filters(Tail(filters), body_filter_handle(Head(filters), body))

\* HttpResponse::send_body_chunk with the request's body filters: the size
\* line is formatted from data, the bytes written are the filtered body.
\* last keeps the size announced and the bytes written by the call.
send_body_chunk_filtered(r, data) ==
    IF r.body_sent THEN r
    ELSE LET h == flush_headers(r)
             body == run_body_filters(r.body_filter, data)
             chunk_size == Len(data.v)
             size == IF h.chunked THEN LowerHex(chunk_size) \o CRLF ELSE <<>>
             trail == IF h.chunked THEN CRLF ELSE <<>>
         IN  [h EXCEPT !.wire = @ \o size \o body.v \o trail,
                       !.last = SomeVal([size |-> chunk_size, written |-> body.v])]

\* The content handler sends a chunk.
BodyChunk(data) ==
    /\ rsp.calls < MaxCalls
    /\ rsp' = [send_body_chunk_filtered(rsp, data) EXCEPT !.calls = @ + 1]

BodyFiltersStart ==
    \E protocol \in {"HTTP/1.0", "HTTP/1.1"}, n \in 0..MaxFilters :
        \E filters \in [1..n -> BodyFilterKinds] :
            rsp = NewResponse(protocol) @@ [body_filter |-> filters, last |-> NoVal]

BodyFiltersInit ==
    BodyFiltersStart /\ now = 0 /\ PoolUnused /\ UpsIdle /\ IoIdle /\ PxIdle
        /\ hc = NoHttp /\ rq = NoRequest /\ rt = NoRouting

BodyFiltersNext ==
    \E data \in {SomeVal(c) : c \in Chunks} \cup {NoVal} :
        BodyChunk(data) /\ UNCHANGED <<now, poolVars, upsVars, ioVars, pxVars, hc, rq, rt>>

SpecBodyFilters == BodyFiltersInit /\ [][BodyFiltersNext]_vars

(***************************************************************************)
(* The pool's two mutexes (variable rt): peers, the idle set, and monitor, *)
(* the sender of the monitor's channel, as taken by the threads that call  *)
(* connect and return peers, and by the monitor thread                     *)
(***************************************************************************)
MaxIdle == 1         \* max_keepalive of the pool
MaxQueue == 2        \* messages in the channel when an operation may still start
MaxMonitored == 2    \* connections the monitor takes (10240 in the source)

MonitorThread == 0
Threads == {MonitorThread} \cup Callers

\* Where a thread is when it is in none of the pool's functions.
Home(t) == IF t = MonitorThread THEN "try_recv" ELSE "idle"

\* The mutex a thread is about to lock, by its position.
Wants(t) ==
    CASE rt.th[t] \in {"connect", "set_keepalive", "remove_keepalive"} -> {"peers"}
      [] rt.th[t] \in {"connect: send", "set_keepalive: send"} -> {"monitor"}
      [] OTHER -> {}

\* The threads a thread waits for: the holders of the mutex it wants.
WaitsOn(t) == UNION {rt.lock[m] : m \in Wants(t)}

RECURSIVE Chain(_, _)
Chain(S, n) == IF n = 0 THEN S ELSE Chain(UNION {WaitsOn(u) : u \in S}, n - 1)

\* A thread waits, directly or through others, for itself.
Deadlocked == \E t \in Threads, n \in 1..Cardinality(Threads) : t \in Chain({t}, n)

PoolActive == Cardinality({c \in Callers : rt.has[c]})

\* connect: self.peers.lock()
ConnectLock(c) ==
    /\ rt.th[c] = "connect"
    /\ rt.lock.peers = {}
    /\ rt' = [rt EXCEPT !.lock.peers = {c}, !.th[c] = "connect: locked"]

\* connect under the guard: the max_active test, then the loop over the idle
\* set. The guard lives to the return; drop(peers) drops a reference.
ConnectBody(c, valid, connected) ==
    /\ rt.th[c] = "connect: locked"
    /\ IF PoolActive = rt.max_active
       THEN rt' = [rt EXCEPT !.lock.peers = {}, !.th[c] = "idle"]
       ELSE IF rt.idle = 0
       THEN rt' = [rt EXCEPT !.lock.peers = {}, !.th[c] = "idle", !.has[c] = connected]
       ELSE IF ~valid
       THEN rt' = [rt EXCEPT !.idle = @ - 1]
       ELSE rt' = [rt EXCEPT !.idle = @ - 1, !.th[c] = "connect: send"]

\* ConnectionPool::send: self.monitor.lock()
SendLock(t) ==
    /\ rt.th[t] \in {"connect: send", "set_keepalive: send"}
    /\ rt.lock.monitor = {}
    /\ rt' = [rt EXCEPT !.lock.monitor = {t},
                        !.th[t] = IF @ = "connect: send" THEN "connect: sending"
                                  ELSE "set_keepalive: sending"]

\* A send that fails: the message comes back in the error and its Peer is
\* dropped, into set_keepalive, before the sender's guard is.
SendDone_rejected(t) ==
    /\ rt.th[t] \in {"connect: sending", "set_keepalive: sending"}
    /\ IF rt.th[t] = "connect: sending"
       THEN rt' = [rt EXCEPT !.lock.monitor = {}, !.lock.peers = {},
                             !.th[t] = "idle", !.has[t] = TRUE]
       ELSE rt' = [rt EXCEPT !.th[t] = "set_keepalive"]

\* ConnectionPool::send: the message is queued, the sender's guard dropped,
\* the monitor woken; connect then returns the peer and drops its guard.
SendDone(t) ==
    /\ rt.th[t] \in {"connect: sending", "set_keepalive: sending"}
    /\ IF rt.th[t] = "connect: sending"
       THEN rt' = [rt EXCEPT !.chan = Append(@, "Remove"), !.lock.monitor = {},
                             !.lock.peers = {}, !.th[t] = "idle", !.has[t] = TRUE]
       ELSE rt' = [rt EXCEPT !.chan = Append(@, "Add"), !.lock.monitor = {}, !.th[t] = Home(t)]

\* A thread calls connect.
ConnectStart(c) ==
    /\ rt.th[c] = "idle"
    /\ ~rt.has[c]
    /\ Len(rt.chan) < MaxQueue
    /\ rt' = [rt EXCEPT !.th[c] = "connect"]

\* Peer::set_keepalive or Drop for Peer: the pool is taken out of the peer
\* and set_keepalive is entered; an invalid stream ends it at once.
SetKeepaliveStart(c, valid) ==
    /\ rt.th[c] = "idle"
    /\ rt.has[c]
    /\ Len(rt.chan) < MaxQueue
    /\ rt' = [rt EXCEPT !.has[c] = FALSE, !.th[c] = IF valid THEN "set_keepalive" ELSE "idle"]

\* set_keepalive: self.peers.lock()
SetKeepaliveLock(t) ==
    /\ rt.th[t] = "set_keepalive"
    /\ rt.lock.peers = {}
    /\ rt' = [rt EXCEPT !.lock.peers = @ \cup {t}, !.th[t] = "set_keepalive: locked"]

\* set_keepalive's closure: full or worn out, the peer is closed; otherwise
\* it is inserted. The guard is dropped when the closure returns.
SetKeepaliveInsert(t, worn) ==
    /\ rt.th[t] = "set_keepalive: locked"
    /\ IF rt.idle = MaxIdle \/ worn
       THEN rt' = [rt EXCEPT !.lock.peers = {}, !.th[t] = Home(t)]
       ELSE rt' = [rt EXCEPT !.lock.peers = {}, !.idle = @ + 1, !.th[t] = "set_keepalive: send"]

\* The monitor's poll returns, with events or at the timeout; it goes on to
\* remove a connection (closed, failed or timed out) or to the channel.
MonitorPollReturn(remove) ==
    /\ rt.th[MonitorThread] = "poll"
    /\ rt' = [rt EXCEPT !.th[MonitorThread] = IF remove /\ rt.monitored > 0
                                              THEN "remove_keepalive" ELSE "try_recv"]

\* remove_keepalive: pool.peers.lock()
RemoveKeepaliveLock ==
    /\ rt.th[MonitorThread] = "remove_keepalive"
    /\ rt.lock.peers = {}
    /\ rt' = [rt EXCEPT !.lock.peers = {MonitorThread},
                        !.th[MonitorThread] = "remove_keepalive: locked"]

\* remove_keepalive: the peer leaves the idle set when it is still there; the
\* guard is dropped with the statement.
RemoveKeepaliveDone(present) ==
    /\ rt.th[MonitorThread] = "remove_keepalive: locked"
    /\ rt' = [rt EXCEPT !.lock.peers = {}, !.monitored = @ - 1,
                        !.idle = IF present /\ @ > 0 THEN @ - 1 ELSE @,
                        !.th[MonitorThread] = "try_recv"]

\* rx.try_recv(): the channel is empty and the monitor goes back to poll, or
\* a message is handled. Remove takes the connection out of the monitor's
\* set. Add registers it and puts it in; a connection that is not taken is
\* released (already registered) or dropped, and the drop of a valid one
\* that still names its pool enters set_keepalive on the monitor thread.
MonitorTryRecv(outcome) ==
    /\ rt.th[MonitorThread] = "try_recv"
    /\ IF rt.chan = <<>>
       THEN rt' = [rt EXCEPT !.th[MonitorThread] = "poll"]
       ELSE IF Head(rt.chan) = "Remove"
       THEN rt' = [rt EXCEPT !.chan = Tail(@), !.monitored = IF @ > 0 THEN @ - 1 ELSE @]
       ELSE IF outcome = "registered" /\ rt.monitored < MaxMonitored
       THEN rt' = [rt EXCEPT !.chan = Tail(@), !.monitored = @ + 1]
       ELSE IF outcome = "released"
       THEN rt' = [rt EXCEPT !.chan = Tail(@)]
       ELSE rt' = [rt EXCEPT !.chan = Tail(@), !.th[MonitorThread] = "set_keepalive"]

LocksStart ==
    \E max_active \in {1, MaxCallers} :
        rt = [pc |-> "locks", th |-> [t \in Threads |-> IF t = MonitorThread THEN "poll" ELSE "idle"],
              has |-> [t \in Threads |-> FALSE], lock |-> [peers |-> {}, monitor |-> {}],
              idle |-> 0, monitored |-> 0, chan |-> <<>>, max_active |-> max_active]

LocksInit ==
    LocksStart /\ now = 0 /\ PoolUnused /\ UpsIdle /\ IoIdle /\ PxIdle
        /\ hc = NoHttp /\ rq = NoRequest /\ rsp = NoResponse

LocksNext ==
    \/ \E c \in Callers : ConnectStart(c) /\ UNCHANGED <<now, poolVars, upsVars, ioVars, pxVars, hc, rq, rsp>>
    \/ \E c \in Callers : ConnectLock(c) /\ UNCHANGED <<now, poolVars, upsVars, ioVars, pxVars, hc, rq, rsp>>
    \/ \E c \in Callers, valid, connected \in BOOLEAN :
            ConnectBody(c, valid, connected) /\ UNCHANGED <<now, poolVars, upsVars, ioVars, pxVars, hc, rq, rsp>>
    \/ \E t \in Threads : SendLock(t) /\ UNCHANGED <<now, poolVars, upsVars, ioVars, pxVars, hc, rq, rsp>>
    \/ \E t \in Threads : SendDone(t) /\ UNCHANGED <<now, poolVars, upsVars, ioVars, pxVars, hc, rq, rsp>>
    \/ \E c \in Callers, valid \in BOOLEAN :
            SetKeepaliveStart(c, valid) /\ UNCHANGED <<now, poolVars, upsVars, ioVars, pxVars, hc, rq, rsp>>
    \/ \E t \in Threads : SetKeepaliveLock(t) /\ UNCHANGED <<now, poolVars, upsVars, ioVars, pxVars, hc, rq, rsp>>
    \/ \E t \in Threads, worn \in BOOLEAN :
            SetKeepaliveInsert(t, worn) /\ UNCHANGED <<now, poolVars, upsVars, ioVars, pxVars, hc, rq, rsp>>
    \/ \E remove \in BOOLEAN :
            MonitorPollReturn(remove) /\ UNCHANGED <<now, poolVars, upsVars, ioVars, pxVars, hc, rq, rsp>>
    \/ RemoveKeepaliveLock /\ UNCHANGED <<now, poolVars, upsVars, ioVars, pxVars, hc, rq, rsp>>
    \/ \E present \in BOOLEAN :
            RemoveKeepaliveDone(present) /\ UNCHANGED <<now, poolVars, upsVars, ioVars, pxVars, hc, rq, rsp>>
    \/ \E outcome \in {"registered", "released", "dropped"} :
            MonitorTryRecv(outcome) /\ UNCHANGED <<now, poolVars, upsVars, ioVars, pxVars, hc, rq, rsp>>

SpecLocks == LocksInit /\ [][LocksNext]_vars

(***************************************************************************)
(* Properties of the HTTP exchange                                         *)
(***************************************************************************)

\* C11: a request whose parse ended in a non-fatal error is malformed and is
\* handed to the worker; the response prepared for it is 400 Bad Request
\* marked closed; the connection never serves another request, and when the
\* response has drained the last thing on the wire is the 400 and the
\* connection is closed.
C11_BadRequestThenClose ==
    hc.parsed_as = "throw" =>
        /\ is_mailformed(hc.state)
        /\ hc.st \in {"worker", "ready", "response", "closed"}
        /\ hc.st \in {"ready", "response"} => hc.status = BAD_REQUEST /\ hc.closed
        /\ hc.st = "closed" =>
              /\ hc.closed_by \in {"response_closed", "send_error", "response_timedout"}
              /\ hc.closed_by = "response_closed" =>
                    /\ hc.wire # <<>>
                    /\ hc.wire[Len(hc.wire)] = BAD_REQUEST

C11_Witness ==
    /\ hc.parsed_as = "throw"
    /\ hc.closed_by = "response_closed"
    /\ hc.wire = <<HTTP_OK, BAD_REQUEST>>

\* C12: when the request deadline expires on a partially received request
\* the client has been sent 408; a deadline that expires on an idle
\* connection or on a response writes nothing.
C12_RequestTimeout ==
    /\ (hc.closed_by = "request_timedout" /\ hc.received > 0) =>
            (hc.wire # <<>> /\ hc.wire[Len(hc.wire)] = REQUEST_TIMEOUT)
    /\ hc.closed_by \in {"idle_timedout", "response_timedout"} =>
            \A n \in 1..Len(hc.wire) : hc.wire[n] # REQUEST_TIMEOUT

C12_Witness ==
    /\ hc.closed_by = "request_timedout"
    /\ hc.received > 0
    /\ hc.state = rq_st_headers

\* C19: every response that has drained to the client has had the log
\* handlers of its request run, the server's before the route's.
C19_LogAfterDrain ==
    \A n \in 1..Len(hc.wire) :
        hc.wire[n] # BAD_REQUEST =>
            \E l \in 1..Len(hc.logged) :
                /\ hc.logged[l].n = n
                /\ hc.logged[l].by \in {<<"server">>, <<"server", "route">>}

C19_Witness ==
    /\ hc.closed_by = "response_closed"
    /\ hc.wire = <<HTTP_OK>>
    /\ hc.log = <<"server", "route">>
    /\ hc.logged = <<>>

\* C15: after parse_args has read k1=v1&...&kn=vn, every pair is in args:
\* the decoded value of pair i is among the values filed under its decoded
\* key.
C15_AllPairs ==
    rq.rc = "OK" =>
        \A i \in 1..Len(rq.pairs) :
            LET key == KeyOf(url_decode(rq.pairs[i].k))
            IN  /\ key \in DOMAIN rq.args
                /\ \E j \in 1..Len(rq.args[key]) : rq.args[key][j] = url_decode(rq.pairs[i].v)

C15_Witness ==
    /\ rq.rc = "OK"
    /\ Len(rq.pairs) = 2
    /\ rq.pairs[1].k = <<"a">>
    /\ rq.pairs[2].k = <<"%", "a", "b">>
    /\ DOMAIN rq.args = {<<"U+FFFD">>}

\* C13: the body vector never holds anything but the first bytes of the n
\* body bytes the client sent, and when the parser reaches st_parsed for a
\* request with Content-Length n > 0 it holds exactly those n bytes.
C13_ExactBody ==
    rq.sent.n > 0 =>
        /\ rq.body.some =>
              /\ Len(rq.body.v) <= rq.sent.n
              /\ rq.body.v = SubSeq(rq.sent.body, 1, Len(rq.body.v))
        /\ rq.state = rq_st_parsed => (rq.body.some /\ rq.body.v = rq.sent.body)

C13_Witness ==
    /\ rq.sent.n = MaxBody
    /\ ~rq.sent.expect
    /\ rq.state = rq_st_parsed
    /\ rq.body.v = rq.sent.body

\* C14: for a request with Expect: 100-continue, once the headers are parsed
\* the flag is cleared, parse has returned AGAIN, and what has gone out to
\* the client is the interim reply (all of it when the socket took the whole
\* write, its first bytes otherwise).
C14_InterimReply ==
    (rq.sent.expect /\ rq.state >= rq_st_headers_end) =>
        /\ ~rq.expect_100_continue
        /\ rq.flushed
        /\ rq.state = rq_st_headers_end => rq.rc = "AGAIN"
        /\ rq.out = SubSeq(Continue100, 1, Len(rq.out))
        /\ rq.buf.wpos = rq.buf.end => rq.out = Continue100

C14_Witness ==
    /\ rq.sent.expect
    /\ rq.state = rq_st_headers_end
    /\ rq.flushed
    /\ rq.out = <<"h", "E", "0", "0">>

\* C16: a flushed response whose header block announced
\* Transfer-Encoding: chunked ends with the terminating chunk "0\r\n\r\n".
C16_ChunkedTerminated ==
    (rsp.done /\ \E i \in 1..Len(rsp.wire) : rsp.wire[i] = "Transfer-Encoding: chunked") =>
        /\ Len(rsp.wire) >= 5
        /\ SubSeq(rsp.wire, Len(rsp.wire) - 4, Len(rsp.wire)) = <<"0">> \o CRLF \o CRLF

C16_Witness ==
    /\ rsp.done
    /\ rsp.calls = 0
    /\ rsp.wire = <<"Transfer-Encoding: chunked">>

\* C17: when the proxy has parsed the chunked serialisation of xs, the body
\* it assembled is exactly xs, and no byte of the serialisation is left
\* unread: none in the buffer, none in the socket, none still to arrive.
C17_ChunkedRoundTrip ==
    (px.rc = "OK" /\ px.state = st_parsed) =>
        /\ px.body = Concat(px.xs)
        /\ px.buf.rpos = px.buf.end
        /\ px.net = <<>>
        /\ px.client = <<>>

C17_Witness ==
    /\ px.rc = "OK"
    /\ px.state = st_parsed
    /\ Len(px.xs) = MaxChunks
    /\ px.body = Concat(px.xs)
    /\ px.client = CRLF

\* A pattern matches a path of its length when each of its segments is the
\* path's segment or "*".
PatternMatches(p, parts) ==
    /\ Len(p) = Len(parts)
    /\ \A i \in 1..Len(p) : p[i] = "*" \/ p[i] = parts[i]

\* The routes that match the whole path, and those that match a proper prefix.
WholeMatches == {p \in rt.routes : PatternMatches(p, rt.path)}

PrefixMatches ==
    {p \in rt.routes : Len(p) < Len(rt.path) /\ PatternMatches(p, SubSeq(rt.path, 1, Len(p)))}

\* C20: an exact result is a route that matches the whole path, with the
\* literal child taken wherever another whole match takes "*"; a partial
\* result is a route that matches a prefix; and when no route matches the
\* whole path but some match a prefix, the result is partial and no
\* matching prefix is deeper than it.
C20_BestMatch ==
    rt.pc = "done" =>
        /\ (rt.res.found /\ rt.res.exact) =>
              /\ rt.res.route \in WholeMatches
              /\ \A q \in WholeMatches \ {rt.res.route} :
                    \E i \in 1..Len(q) :
                        /\ SubSeq(q, 1, i - 1) = SubSeq(rt.res.route, 1, i - 1)
                        /\ q[i] = "*"
                        /\ rt.res.route[i] # "*"
        /\ (rt.res.found /\ ~rt.res.exact) => rt.res.route \in PrefixMatches
        /\ (WholeMatches = {} /\ PrefixMatches # {}) =>
              /\ rt.res.found
              /\ ~rt.res.exact
              /\ \A q \in PrefixMatches : Len(q) <= Len(rt.res.route)

C20_Witness ==
    /\ rt.pc = "done"
    /\ rt.routes = {<<"a">>, <<"a", "a", "a">>}
    /\ rt.path = <<"a", "a", "b">>
    /\ ~rt.res.found

\* C18: the lookup of one request is restarted by rewrites at most 10 times.
C18_RestartsCapped == rt.restarts <= 10

C18_Witness ==
    /\ rt.pc = "lookup"
    /\ rt.restarts = MaxRestarts
    /\ rt.server_rewrite = NoRewrite
    /\ rt.uri = <<"a">>
    /\ rt.rewrite[<<"a">>] = <<"a">>


(***************************************************************************)
(* Properties of the routers' replace                                      *)
(***************************************************************************)

\* C21: after replace(name, method, context) the call has returned, a lookup
\* for (name, method) yields context, and the entry of every other name and
\* of every other method is what it was before the call.
C21_ReplaceOverwrites ==
    rt.pc = "named" /\ rt.op = "replace" =>
        /\ ~rt.panicked
        /\ named_get(rt.routes, rt.name, rt.method) = rt.context
        /\ \A name \in Names, method \in Methods :
              <<name, method>> # <<rt.name, rt.method>> =>
                  slot(rt.routes, name, method) = slot(rt.prev, name, method)

\* A replace of an entry that existed, in a router that holds another route.
C21_Witness ==
    /\ rt.pc = "named"
    /\ rt.op = "replace"
    /\ Len(rt.prev) = 2
    /\ slot(rt.prev, rt.name, rt.method) # NoContext
    /\ slot(rt.prev, rt.name, rt.method) # rt.context


(***************************************************************************)
(* Properties of the capacity limits                                       *)
(***************************************************************************)

\* C22: a max_active of 0 means unbounded: an upstream configured with
\* max_active = 0 never rejects a connect for capacity reasons.
C22_ZeroIsUnbounded == ups.max_active = 0 => ups.out # "max_active"

\* An upstream with max_active = 0, no peer handed out and every primary
\* server accepting connections has answered a connect.
C22_Witness ==
    /\ ups.primary # {}
    /\ ups.max_active = 0
    /\ ups.count = 0
    /\ ups.primary \subseteq avail
    /\ ups.out # "none"


(***************************************************************************)
(* Properties of the reactor's keepalive set                               *)
(***************************************************************************)

\* C23: between reactor events every client in the clients table (Idle,
\* Request or Response) that has a deadline has exactly one entry in the
\* keepalive set, the pair of its deadline and its own token, and every
\* entry of the set belongs to a client in the table.
C23_OneKeepaliveEntry ==
    /\ \A e \in clients :
          conn[e.c].exp # NoExp =>
              {key \in keepalive : key[2] = e.token} = {<<conn[e.c].exp, e.token>>}
    /\ \A key \in keepalive : \E e \in clients : e.token = key[2]

\* An accepted client with request_timeout armed is waiting for its first
\* byte.
C23_Witness ==
    \E e \in clients :
        /\ e.item = "Idle"
        /\ conn[e.c].exp # NoExp
        /\ conn[e.c].ev.kind = "none"
        /\ keepalive # {}


(***************************************************************************)
(* Properties of the places a pooled peer is in                            *)
(***************************************************************************)

\* A message carrying (a weak copy of) peer i is in the monitor channel.
InFlight(i) == \E n \in 1..Len(chan) : chan[n].w.id = i

\* The places peer i is in: held by a caller, in the pool's idle set, in
\* flight through the monitor channel.
Places(i) ==
    (IF peer[i].loc = "caller" THEN {"caller"} ELSE {})
        \cup (IF i \in IdleSet THEN {"idle"} ELSE {})
        \cup (IF InFlight(i) THEN {"channel"} ELSE {})

\* C24: a peer is in at most one of the three places (caller, idle set,
\* monitor channel) at a time, and is never both active (counted as checked
\* out) and in the idle set.
C24_OnePlace ==
    \A i \in PeerIds :
        /\ Cardinality(Places(i)) <= 1
        /\ ~(peer[i].active /\ i \in IdleSet)

\* A peer returned to the idle set was reused by connect before its Add was
\* sent: it is held by a caller while its Add is in the channel.
C24_Witness ==
    \E i \in PeerIds :
        /\ peer[i].loc = "caller"
        /\ \E n \in 1..Len(chan) : chan[n].kind = "Add" /\ chan[n].w.id = i


\* C25: a peer in the idle set whose keepalive deadline has passed
\* eventually leaves the idle set (reused by connect or removed by the
\* monitor), however the Add of its return interleaves with the Remove of a
\* connect.
C25_IdleEventuallyLeaves ==
    \A i \in PeerIds :
        (i \in IdleSet /\ peer[i].exp <= now) ~> (i \notin IdleSet)

\* An idle peer past its deadline that no Add, pending or in flight, and no
\* entry of the monitor's set stands for.
C25_Witness ==
    \E i \in IdleSet :
        /\ peer[i].valid
        /\ peer[i].exp <= now
        /\ res.out = "reuse"
        /\ \A w \in pend \cup mon : w.id # i
        /\ chan = <<>>


(***************************************************************************)
(* Properties of the peer a proxy leg gives up                             *)
(***************************************************************************)

\* C26: a peer held by a proxy exchange enters the pool's idle set only in
\* the step in which its upstream response is fully parsed (st_parsed); a
\* leg that timed out or failed before that never puts it there.
C26_IdleOnlyAfterParsed ==
    [][\A i \in PeerIds :
          (peer[i].loc = "caller" /\ peer'[i].loc = "idle") => px'.state = st_parsed]_vars

\* The first exchange was answered 504 with the upstream response unparsed,
\* and its peer is in the idle set.
C26_Witness ==
    /\ px.pc = "idle"
    /\ px.served = 1
    /\ px.status = 504
    /\ px.state < st_parsed
    /\ \E i \in PeerIds : peer[i].loc = "idle" /\ peer[i].valid


(***************************************************************************)
(* Properties of the kept-alive connection                                 *)
(***************************************************************************)

\* C27: every byte the server has read from a kept-alive connection is
\* retained until it is parsed: the requests parsed so far, the request in
\* progress, the unread rest of the buffer and the bytes still to arrive
\* make up the stream the client sends, so that a pipelined request is
\* parsed and answered.
C27_PipelinedRetained ==
    rq.rc = "pipe" =>
        Concat(rq.parsed) \o rq.cur \o buffer_tail(rq.buf) \o rq.net \o rq.client
            = PipelinedStream(MaxRequests)

\* The first request has been answered and the client is Idle; the second
\* request had reached the socket before the first was read.
C27_Witness ==
    /\ rq.rc = "pipe"
    /\ rq.item = "Idle"
    /\ rq.answered = 1
    /\ rq.parsed = <<RequestBytes(1)>>
    /\ rq.net = <<>>
    /\ rq.client = RequestBytes(3)


(***************************************************************************)
(* Properties of the resumed parse                                         *)
(***************************************************************************)

\* C28: the outcome of parsing a header block (headers, parse state and the
\* malformed or fatal verdict) is the same however the bytes are split over
\* socket reads: a parse that was resumed after AGAIN ends as the parse of
\* the whole block does.
C28_SplitIndependent ==
    rq.rc \in {"OK", "throw", "fatal"} => Outcome(rq) = Unsplit(rq.block)

\* A well-formed block whose parse was resumed after the CR of a header line
\* has ended.
C28_Witness ==
    /\ rq.block = HeaderLines(1) \o <<"CR", "LF">>
    /\ Unsplit(rq.block).rc = "OK"
    /\ rq.rc = "throw"
    /\ rq.client = <<"CR", "LF">>


\* The weak peer w of the monitor's set stands for a peer that is in the idle
\* set of its pool now.
IdleIn(w) == w.id \in IdleSet /\ peer[w.id].token = w.token /\ peer[w.id].exp = w.exp

\* C29: every event the monitor handles for an idle peer (read-closed, error
\* or readable) takes that peer out of its pool's idle set.
C29_EventRemovesIdle ==
    [][\A w \in mon : (rt' # rt /\ rt'.w = w /\ IdleIn(w)) => w.id \notin IdleSet']_vars

\* A readable event has been handled for an idle peer whose deadline has not
\* passed, and the peer is still idle.
C29_Witness ==
    /\ rt.ev = "readable"
    /\ rt.w \in mon
    /\ IdleIn(rt.w)
    /\ now < rt.w.exp


\* C30: a step of connect that hands an idle peer to the caller has appended
\* Remove for that peer as it stood in the idle set (old token, old deadline)
\* to the monitor's channel, has reset the peer's deadline from the connect
\* timeout and has given it the next token.
C30_ReuseSendsRemoveFirst ==
    [][\A i \in PeerIds :
        (peer[i].loc = "idle" /\ peer'[i].loc = "caller")
            => /\ chan' = Append(chan, Msg("Remove", [id |-> i, token |-> peer[i].token,
                                                       exp |-> peer[i].exp, pool |-> FALSE]))
               /\ peer'[i].exp = Deadline(cfg.timeout)
               /\ peer'[i].token = next_token
               /\ peer'[i].token > peer[i].token
               /\ next_token' = next_token + 1]_vars

\* connect has just reused a peer: the caller holds it under a new token and
\* the Remove carrying its old token is the last message on the channel.
C30_Witness ==
    /\ res.out = "reuse"
    /\ chan # <<>>
    /\ LET m == chan[Len(chan)]
       IN  /\ m.kind = "Remove"
           /\ peer[m.w.id].loc = "caller"
           /\ peer[m.w.id].token > m.w.token
           /\ peer[m.w.id].exp # m.w.exp


\* C31: a call of Upstream::connect that ends with "Bad gateway" has made a
\* failed connection attempt to every server of the set, under either
\* balancer and with other callers inside connect.
C31_GivesUpAfterAllServers ==
    \A c \in Callers : ups.call[c].out = "Bad gateway" => ups.call[c].tried = ups.primary

\* A call has given up although a server of the set, able to hand out a
\* peer, was never attempted by it.
C31_Witness ==
    \E c \in Callers :
        /\ ups.call[c].out = "Bad gateway"
        /\ \E a \in ups.primary \ ups.call[c].tried : a \in avail


\* C32: the failover of one proxied request makes a bounded number of
\* attempts, so the flush handler eventually finishes, also when every
\* attempt fails before the response headers.
C32_FailoverFinishes == <>(px.pc = "done")

\* The handler is about to connect again after MaxAttempts attempts that all
\* failed before the end of the status line's protocol token.
C32_Witness ==
    /\ px.pc = "connect"
    /\ px.attempts = MaxAttempts
    /\ px.state < RetryLimit
    /\ ~px.timed


\* C33: when the headers are serialized, every registered header filter has
\* been run on the second pass, after the framing was finalized, and has
\* seen the framing headers that go out.
C33_FiltersSeeFinalFraming ==
    rsp.headers_sent =>
        \A i \in DOMAIN rsp.registered :
            \E k \in DOMAIN rsp.seen :
                /\ rsp.seen[k].filter = i
                /\ rsp.seen[k].pass = 1
                /\ rsp.seen[k].framing = rsp.hdr

\* The headers went out with Content-Length, and the one registered filter
\* ran once, on the first pass, and saw no framing header.
C33_Witness ==
    /\ rsp.headers_sent
    /\ rsp.registered = <<"observe">>
    /\ rsp.hdr.cl = 2
    /\ \A k \in DOMAIN rsp.seen : rsp.seen[k].pass = 0 /\ rsp.seen[k].framing = NoFraming
    /\ Len(rsp.seen) = 1


\* C34: while a lookup holds its read guard the route table is the table
\* some completed sequence of mutations left (never a route without its
\* context, never a key without its routes being filled), it is the table
\* the lookup saw when it took the guard, and what the lookup found is still
\* in it.
C34_LookupSeesWholeMutations ==
    \A l \in LookupIds :
        rt.lookup[l].pc # "idle" =>
            /\ rt.table = rt.committed
            /\ rt.lookup[l].snap = rt.table
            /\ rt.lookup[l].found \subseteq rt.table.routes
            /\ \A e \in rt.table.routes : e[2] # DefaultCtx

\* A lookup holds a route it found while the writer, having already replaced
\* a route once, is idle: a further mutation waits for the guard.
C34_Witness ==
    \E l \in LookupIds :
        /\ rt.lookup[l].pc = "found"
        /\ rt.lookup[l].found # {}
        /\ rt.mutations >= 1
        /\ rt.mutations < MaxMutations
        /\ rt.writer.pc = "idle"


\* C35 as stated: after every sequence of Buffer operations
\* 0 <= rpos <= wpos <= end <= capacity.
C35_CursorsOrdered ==
    /\ 0 <= rq.buf.rpos
    /\ rq.buf.rpos <= rq.buf.wpos
    /\ rq.buf.wpos <= rq.buf.end
    /\ rq.buf.end <= rq.cap

\* C35, amended: the read cursor and the write cursor each stay within
\* 0..end, and end stays within the Vec's length, which is within its
\* capacity; the two cursors are not ordered against each other.
C35_CursorsWithinEnd ==
    /\ 0 <= rq.buf.rpos /\ rq.buf.rpos <= rq.buf.end
    /\ 0 <= rq.buf.wpos /\ rq.buf.wpos <= rq.buf.end
    /\ rq.buf.end <= Len(rq.buf.data)
    /\ Len(rq.buf.data) <= rq.cap

\* Bytes have been read into the buffer and consumed by getc while nothing
\* was written out: the read cursor is ahead of the write cursor.
C35_Witness ==
    /\ rq.op = "getc"
    /\ rq.buf.rpos > rq.buf.wpos
    /\ rq.buf.rpos <= rq.buf.end


\* Route r comes before route s: longer pattern, or same length and made by
\* an earlier add.
ReBefore(r, s) ==
    \/ Len(r.pattern) > Len(s.pattern)
    \/ Len(r.pattern) = Len(s.pattern) /\ r.born < s.born

\* The answer of the first route, in that order, whose pattern matches.
ReFirstMatch(routes, path, method) ==
    LET M == {routes[i] : i \in {j \in 1..Len(routes) : re_matches(routes[j].pattern, path)}}
    IN  IF M = {} THEN NoContext
        ELSE LET r == CHOOSE r \in M : \A s \in M \ {r} : ReBefore(r, s)
             IN  IF r.context[method] # NoContext THEN r.context[method] ELSE r.context["*"]

\* C36: after any adds and removes the vector is ordered by descending
\* pattern length, ties in insertion order, and get answers with the first
\* pattern in that order that matches the uri.
C36_LongestFirst ==
    /\ \A i, j \in 1..Len(rt.routes) : i < j => ReBefore(rt.routes[i], rt.routes[j])
    /\ \A path \in ReUris, method \in {"GET", "POST"} :
          re_get(rt.routes, 1, path, method) = ReFirstMatch(rt.routes, path, method)

\* Three patterns, the longest added last and standing first, two of equal
\* length behind it in the order they were added, and a uri that all three
\* match.
C36_Witness ==
    /\ Len(rt.routes) = 3
    /\ rt.routes[1].born = 3
    /\ Len(rt.routes[2].pattern) = Len(rt.routes[3].pattern)
    /\ rt.routes[2].born < rt.routes[3].born
    /\ \E path \in ReUris : \A i \in 1..3 : re_matches(rt.routes[i].pattern, path)


\* C37: a reactor tick that starts with an Invalid listener in the table,
\* no add_listener or remove_listener call being in progress, goes on to
\* update_servers, which retries the creation.
C37_InvalidRetriedNextTick ==
    [][(/\ rt.reactor = "top" /\ rt'.reactor # "top"
        /\ rt.caller.pc = "idle"
        /\ \E a \in Listen : rt.servers[a] = "Invalid")
            => rt'.reactor = "want"]_vars

\* The reactor is past the flag test and in poll with the flag clear, while
\* a listener is Invalid and its address could be bound.
C37_Witness ==
    /\ rt.reactor = "poll"
    /\ ~rt.updated
    /\ rt.caller.pc = "idle"
    /\ \E a \in Listen : rt.servers[a] = "Invalid" /\ rt.bindable[a]


\* C40: a change made by add_listener or remove_listener is not lost by the
\* 'updated' flag: once a call has changed the table, the reactor eventually
\* runs update_servers on a table that holds the change.
C40_ChangeReachesUpdate ==
    \A a \in Listen : (a \in rt.pending) ~> (a \notin rt.pending)

\* Both calls have returned; the later change is in the table with the flag
\* set, and the reactor, already past its test of the flag, is in poll.
C40_Witness ==
    /\ rt.changes = MaxChanges
    /\ rt.reactor = "poll"
    /\ rt.updated
    /\ rt.pending # {}
    /\ rt.caller.pc = "idle"


\* C38: in a chunked response the size announced in a chunk's header is the
\* number of body bytes written for the chunk after the body filters ran.
C38_ChunkSizeIsWritten ==
    (rsp.chunked /\ rsp.last.some) => rsp.last.v.size = Len(rsp.last.v.written)

\* A chunk of a chunked response has gone through a chain that holds a
\* filter other than body_log.
C38_Witness ==
    /\ rsp.chunked
    /\ rsp.last.some
    /\ \E i \in DOMAIN rsp.body_filter : rsp.body_filter[i] # "body_log"
    /\ Len(rsp.last.v.written) > 0


\* C39: no interleaving of connect, the return of a peer, remove_keepalive
\* and the monitor thread leaves threads waiting for each other on the peers
\* mutex and the sender mutex, and the monitor thread holds neither mutex
\* while it is in poll.
C39_NoDeadlock ==
    /\ ~Deadlocked
    /\ rt.th[MonitorThread] = "poll" => \A m \in {"peers", "monitor"} : MonitorThread \notin rt.lock[m]

\* One thread, inside connect, holds the peers mutex and waits for the
\* sender mutex, which another thread holds inside send, while the monitor
\* waits for the peers mutex in remove_keepalive.
C39_Witness ==
    /\ \E c, d \in Callers :
            /\ rt.th[c] = "connect: send" /\ rt.lock.peers = {c}
            /\ rt.th[d] = "set_keepalive: sending" /\ rt.lock.monitor = {d}
    /\ rt.th[MonitorThread] = "remove_keepalive"

====
